---- MODULE Spec2Model ----
(***************************************************************************)
(* A model of the scoring core of the studybot repository:                 *)
(*   - EngagementTracker and AdvancedEngagementTracker                     *)
(*       (src/lib/engagementTracker.ts, src/lib/advancedEngagementTracker.ts)*)
(*   - the adaptive skill estimator (src/lib/adaptiveAlgorithm.ts)         *)
(*   - AttentionCheckSystem (src/lib/assistiveFeatures.ts)                 *)
(*                                                                         *)
(* JavaScript numbers are modelled exactly: times are integer              *)
(* milliseconds, and every fractional quantity is an exact rational        *)
(* <<numerator, denominator>> in lowest terms, so that no rounding of the  *)
(* model hides or creates a boundary case.  Math.round is modelled as      *)
(* floor(x + 1/2), which is its definition.                                *)
(***************************************************************************)
EXTENDS Integers, Sequences, FiniteSets, TLC

VARIABLES
    \* ---- the clock read by Date.now() (shared by every component)
    now,
    \* ---- EngagementTracker / AdvancedEngagementTracker fields
    tracker,                \* which class the instance is
    startTime,
    lastMousePos,
    totalMouseDistance,
    interactionCount,
    isFocused,
    windowFocused,          \* the browser window is in focus (the environment)
    focusStartTime,
    totalFocusTime,
    snapshots,
    lastSnapshotTime,
    eyeTracker,             \* AdvancedEngagementTracker.eyeTracker is set
    eyeTrackingEnabled,
    audio,                  \* audioEngagementScore, speechRate, responseLatency
    emotion,                \* frustrationLevel, confusionLevel
    thresholds,
    metrics,                \* what the last getMetrics() call returned
    breakDue,               \* what the last shouldTriggerBreak() returned
    \* ---- adaptive skill estimator (the estimate held by its caller)
    skillEstimate,
    lastMetrics,            \* the PerformanceMetrics of the last update
    difficulty,             \* what the last calculateOptimalDifficulty() returned
    diagnosticResult,       \* gameState.diagnosticResult the estimate was seeded from
    \* ---- LearningGame component state
    correctAnswers,
    questionsAnswered,
    recentPerformance,
    selectedAnswer,
    question,               \* what the last generateQuestionParameters() returned
    timer,                  \* the pending generateNewQuestion() call and the
                            \* skillEstimate / recentPerformance it closes over
    \* ---- AttentionCheckSystem fields
    checks,
    responsePatterns,
    interactionEvents,
    quality,                \* what the last evaluateSessionQuality() returned
    \* ---- ResearchDataCollector instances
    pseudonymMap,           \* per instance: userId -> PseudonymousID entry
    pseudoId,               \* what the last generatePseudonymousId() returned
    \* ---- LearnerModelEngine
    learner,                \* the engine's model
    \* ---- BreakTimer fields and the browser's timers it has set
    breakConfig,            \* config: structuredBreaks, breakFrequency, breakDuration
    workStartTime,
    breakCallbacks,
    timerInterval,          \* the handle start() stored, or NoResult for null
    intervals,              \* running setInterval timers: handle and next due time
    timeouts,               \* pending setTimeout timers: handle and due time
    nextHandle,             \* the handle the next timer gets
    notifications,          \* what the callbacks have been called with
    \* ---- AudioAnalyzer
    analyzer,               \* its histories, pauses and time marks
    callStack,              \* the frames of a running getSpeechMetrics() call
    speechMetrics,          \* how the last getSpeechMetrics() call ended
    \* ---- EmotionGestureDetector
    detector                \* its two histories, last hands and movements

trackerVars == <<tracker, startTime, lastMousePos, totalMouseDistance,
                 interactionCount, isFocused, windowFocused, focusStartTime,
                 totalFocusTime, snapshots, lastSnapshotTime, eyeTracker,
                 eyeTrackingEnabled, audio, emotion, thresholds, metrics,
                 breakDue>>
skillVars == <<skillEstimate, lastMetrics, difficulty, diagnosticResult>>
gameVars == <<correctAnswers, questionsAnswered, recentPerformance,
              selectedAnswer, question, timer>>
attentionVars == <<checks, responsePatterns, interactionEvents, quality>>
collectorVars == <<pseudonymMap, pseudoId>>
learnerVars == <<learner>>
breakVars == <<breakConfig, workStartTime, breakCallbacks, timerInterval,
               intervals, timeouts, nextHandle, notifications>>
audioVars == <<analyzer, callStack, speechMetrics>>
detectorVars == <<detector>>
assistVars == <<learnerVars, breakVars, audioVars, detectorVars>>
vars == <<now, trackerVars, skillVars, gameVars, attentionVars, collectorVars,
         assistVars>>

\* The value of a result variable when the last operation returned nothing.
NoResult == [none |-> TRUE]

(***************************************************************************)
(* Exact arithmetic                                                        *)
(***************************************************************************)
Abs(i) == IF i < 0 THEN -i ELSE i
Min(a, b) == IF a <= b THEN a ELSE b
Max(a, b) == IF a >= b THEN a ELSE b

RECURSIVE GCD(_, _)
GCD(a, b) == IF b = 0 THEN a ELSE GCD(b, a % b)

\* The rational n/d (d # 0) in lowest terms with a positive denominator.
Rat(n, d) ==
    LET s == IF d < 0 THEN -1 ELSE 1
        g == GCD(Abs(n), Abs(d))
    IN  <<(s * n) \div g, (s * d) \div g>>
R(i) == <<i, 1>>
Num(q) == q[1]
Den(q) == q[2]
\* Sums and comparisons go through the least common denominator, which keeps
\* the intermediate integers small.
LCD(p, q) == (p[2] \div GCD(p[2], q[2])) * q[2]
Scaled(p, d) == p[1] * (d \div p[2])
RAdd(p, q) == LET d == LCD(p, q) IN Rat(Scaled(p, d) + Scaled(q, d), d)
RSub(p, q) == LET d == LCD(p, q) IN Rat(Scaled(p, d) - Scaled(q, d), d)
RMul(p, q) == Rat(p[1] * q[1], p[2] * q[2])
RLe(p, q) == LET d == LCD(p, q) IN Scaled(p, d) <= Scaled(q, d)
RLt(p, q) == LET d == LCD(p, q) IN Scaled(p, d) < Scaled(q, d)
RMin(p, q) == IF RLe(p, q) THEN p ELSE q
RMax(p, q) == IF RLe(q, p) THEN p ELSE q
RAbs(p) == <<Abs(p[1]), p[2]>>
\* Math.round(q): the integer nearest to q, ties towards +Infinity.
Round(q) == (2 * q[1] + q[2]) \div (2 * q[2])

(***************************************************************************)
(* Adaptive skill estimator: src/lib/adaptiveAlgorithm.ts                  *)
(***************************************************************************)
\* Largest number of decimal digits mathFluency may carry: each update
\* multiplies by 0.7 and 0.3, so this caps the updates that add a digit.
MaxDigits == 2

RECURSIVE Pow10(_)
Pow10(k) == IF k = 0 THEN 1 ELSE 10 * Pow10(k - 1)

\* PerformanceMetrics as updateSkillEstimate reads it (attentionScore and
\* recentPerformance are not read by the update).
Perf(c, t, rt) ==
    [correctAnswers |-> c, totalAnswers |-> t, averageResponseTime |-> rt]
\* No answers yet (two speeds), an ordinary answer record, more correct
\* answers than answers, a negative count and a negative time, slow and wrong.
MetricsInputs ==
    { Perf(0, 0, 0), Perf(0, 0, 5000), Perf(1, 2, 5000), Perf(3, 2, 0),
      Perf(-1, 2, -4000), Perf(0, 2, 10000) }
ZeroSignalInputs ==
    {m \in MetricsInputs : m.correctAnswers = 0 /\ m.totalAnswers = 0}

\* Diagnostic results a session can start from.
DiagnosticInputs ==
    { [workingMemory |-> 80, attention |-> 70, processingSpeed |-> 60,
       executiveFunction |-> 75],
      [workingMemory |-> 40, attention |-> 40, processingSpeed |-> 40,
       executiveFunction |-> 40],
      [workingMemory |-> 0, attention |-> 0, processingSpeed |-> 0,
       executiveFunction |-> 0],
      [workingMemory |-> 100, attention |-> 100, processingSpeed |-> 100,
       executiveFunction |-> 100] }

\* The estimate LearningGame starts from when there is no diagnostic result.
DefaultSkillEstimate ==
    [workingMemory |-> 50, attention |-> 50, processingSpeed |-> 50,
     executiveFunction |-> 50, mathFluency |-> R(50), confidence |-> Rat(3, 10)]

InitializeFromDiagnostic_EqualWeights(diagnostic) ==
    [workingMemory |-> diagnostic.workingMemory,
     attention |-> diagnostic.attention,
     processingSpeed |-> diagnostic.processingSpeed,
     executiveFunction |-> diagnostic.executiveFunction,
     mathFluency |-> Rat(diagnostic.workingMemory + diagnostic.attention
                             + diagnostic.processingSpeed
                             + diagnostic.executiveFunction, 4),
     confidence |-> Rat(5, 10)]
InitializeFromDiagnostic(diagnostic) ==
    LET initialMathFluency ==
            RAdd(RAdd(RMul(R(diagnostic.workingMemory), Rat(3, 10)),
                      RMul(R(diagnostic.attention), Rat(2, 10))),
                 RAdd(RMul(R(diagnostic.processingSpeed), Rat(3, 10)),
                      RMul(R(diagnostic.executiveFunction), Rat(2, 10))))
    IN  [workingMemory |-> diagnostic.workingMemory,
         attention |-> diagnostic.attention,
         processingSpeed |-> diagnostic.processingSpeed,
         executiveFunction |-> diagnostic.executiveFunction,
         mathFluency |-> initialMathFluency,
         confidence |-> Rat(5, 10)]

\* accuracy = correctAnswers / Math.max(1, totalAnswers)
Accuracy_NoAnswersPerfect(m) ==
    IF m.totalAnswers = 0 THEN R(1) ELSE Rat(m.correctAnswers, m.totalAnswers)
Accuracy(m) == Rat(m.correctAnswers, Max(1, m.totalAnswers))

\* speedFactor = Math.max(0, Math.min(1, 1 - averageResponseTime / 10000))
SpeedFactor(m) ==
    RMax(R(0), RMin(R(1), RSub(R(1), Rat(m.averageResponseTime, 10000))))

\* performanceScore = (accuracy * 0.6 + speedFactor * 0.4) * 100
PerformanceScore(m) ==
    RMul(RAdd(RMul(Accuracy(m), Rat(6, 10)), RMul(SpeedFactor(m), Rat(4, 10))),
         R(100))

UpdateSkillEstimate_NoCap(currentEstimate, m) ==
    LET alpha == Rat(3, 10)
        newMathFluency ==
            RAdd(RMul(currentEstimate.mathFluency, RSub(R(1), alpha)),
                 RMul(PerformanceScore(m), alpha))
    IN  [currentEstimate EXCEPT
            !.mathFluency = newMathFluency,
            !.confidence = RAdd(currentEstimate.confidence, Rat(1, 10))]
UpdateSkillEstimate_NoDecay(currentEstimate, m) ==
    [currentEstimate EXCEPT
        !.mathFluency = RAdd(currentEstimate.mathFluency,
                             RMul(PerformanceScore(m), Rat(3, 10))),
        !.confidence = RMin(R(1), RAdd(currentEstimate.confidence, Rat(1, 10)))]
UpdateSkillEstimate(currentEstimate, m) ==
    LET alpha == Rat(3, 10)
        newMathFluency ==
            RAdd(RMul(currentEstimate.mathFluency, RSub(R(1), alpha)),
                 RMul(PerformanceScore(m), alpha))
        newConfidence == RMin(R(1), RAdd(currentEstimate.confidence, Rat(1, 10)))
    IN  [currentEstimate EXCEPT !.mathFluency = newMathFluency,
                                !.confidence = newConfidence]

CalculateOptimalDifficulty_NoClamp(estimate) ==
    RMul(estimate.mathFluency, Rat(11, 10))
CalculateOptimalDifficulty(estimate) ==
    LET targetDifficulty == RMul(estimate.mathFluency, Rat(11, 10))
    IN  RMax(R(10), RMin(R(95), targetDifficulty))

\* useState(() => gameState.diagnosticResult
\*                    ? initializeFromDiagnostic(...) : { 50, ..., 0.3 })
InitialSkillEstimate(diagnostic) ==
    IF diagnostic # NoResult THEN InitializeFromDiagnostic(diagnostic)
    ELSE DefaultSkillEstimate

\* The state a callback created during the current render closes over.
Closure == [skillEstimate |-> skillEstimate,
            recentPerformance |-> recentPerformance]

\* The component has mounted and the effect that generates the first question
\* is about to run.
GameInit ==
    /\ correctAnswers = 0
    /\ questionsAnswered = 0
    /\ recentPerformance = <<>>
    /\ selectedAnswer = NoResult
    /\ question = NoResult
    /\ timer = Closure

SkillInit ==
    /\ diagnosticResult = NoResult
    /\ skillEstimate = DefaultSkillEstimate
    /\ lastMetrics = NoResult
    /\ difficulty = NoResult
    /\ GameInit

\* A session's first estimate: the default, or one seeded from a diagnostic.
SkillStart ==
    /\ diagnosticResult \in {NoResult} \cup DiagnosticInputs
    /\ skillEstimate = InitialSkillEstimate(diagnosticResult)
    /\ lastMetrics = NoResult
    /\ difficulty = NoResult
    /\ GameInit

\* setSkillEstimate(updateSkillEstimate(skillEstimate, metrics))
UpdateSkill(m) ==
    /\ Den(UpdateSkillEstimate(skillEstimate, m).mathFluency) <= Pow10(MaxDigits)
    /\ skillEstimate' = UpdateSkillEstimate(skillEstimate, m)
    /\ lastMetrics' = m
    /\ difficulty' = NoResult
    /\ UNCHANGED <<diagnosticResult, now, trackerVars, attentionVars, collectorVars, gameVars,
            assistVars>>

OptimalDifficulty ==
    /\ difficulty' = [value |-> CalculateOptimalDifficulty(skillEstimate)]
    /\ UNCHANGED <<skillEstimate, lastMetrics, diagnosticResult, now, trackerVars, attentionVars, collectorVars, gameVars,
            assistVars>>

\* recentPerformance.filter(p => p.correct).length
CorrectCount(performance) ==
    Cardinality({i \in 1..Len(performance) : performance[i].correct})

QuestionType(adjustedDifficulty) ==
    IF RLt(adjustedDifficulty, R(30)) THEN "number-recognition"
    ELSE IF RLt(adjustedDifficulty, R(50)) THEN "addition"
    ELSE IF RLt(adjustedDifficulty, R(70)) THEN "subtraction"
    ELSE "sequencing"

GenerateQuestionParameters_Unclamped(estimate, performance) ==
    LET optimalDifficulty == CalculateOptimalDifficulty(estimate)
        recentAccuracy ==
            IF Len(performance) > 0
            THEN Rat(CorrectCount(performance), Len(performance))
            ELSE Rat(5, 10)
        adjustedDifficulty ==
            IF RLt(Rat(8, 10), recentAccuracy)
            THEN RAdd(optimalDifficulty, R(5))
            ELSE IF RLt(recentAccuracy, Rat(5, 10))
            THEN RSub(optimalDifficulty, R(5))
            ELSE optimalDifficulty
        timeLimit == RMul(R(15000), RAdd(R(1), Rat(estimate.processingSpeed, 100)))
    IN  [difficulty |-> adjustedDifficulty,
         timeLimit |-> RMax(R(5000), RMin(R(30000), timeLimit)),
         questionType |-> QuestionType(adjustedDifficulty),
         numOptions |-> IF RLt(adjustedDifficulty, R(50)) THEN 4 ELSE 6]
GenerateQuestionParameters_FloorAtThirty(estimate, performance) ==
    LET optimalDifficulty == CalculateOptimalDifficulty(estimate)
        recentAccuracy ==
            IF Len(performance) > 0
            THEN Rat(CorrectCount(performance), Len(performance))
            ELSE Rat(5, 10)
        adjustedDifficulty ==
            IF RLt(Rat(8, 10), recentAccuracy)
            THEN RAdd(optimalDifficulty, R(5))
            ELSE IF RLt(recentAccuracy, Rat(5, 10))
            THEN RSub(optimalDifficulty, R(5))
            ELSE optimalDifficulty
        timeLimit == RMul(R(15000), RAdd(R(1), Rat(estimate.processingSpeed, 100)))
    IN  [difficulty |-> RMax(R(30), RMin(R(95), adjustedDifficulty)),
         timeLimit |-> RMax(R(5000), RMin(R(30000), timeLimit)),
         questionType |-> QuestionType(adjustedDifficulty),
         numOptions |-> IF RLt(adjustedDifficulty, R(50)) THEN 4 ELSE 6]
GenerateQuestionParameters(estimate, performance) ==
    LET optimalDifficulty == CalculateOptimalDifficulty(estimate)
        recentAccuracy ==
            IF Len(performance) > 0
            THEN Rat(CorrectCount(performance), Len(performance))
            ELSE Rat(5, 10)
        adjustedDifficulty ==
            IF RLt(Rat(8, 10), recentAccuracy)
            THEN RAdd(optimalDifficulty, R(5))
            ELSE IF RLt(recentAccuracy, Rat(5, 10))
            THEN RSub(optimalDifficulty, R(5))
            ELSE optimalDifficulty
        timeLimit == RMul(R(15000), RAdd(R(1), Rat(estimate.processingSpeed, 100)))
    IN  [difficulty |-> RMax(R(10), RMin(R(95), adjustedDifficulty)),
         timeLimit |-> RMax(R(5000), RMin(R(30000), timeLimit)),
         questionType |-> QuestionType(adjustedDifficulty),
         numOptions |-> IF RLt(adjustedDifficulty, R(50)) THEN 4 ELSE 6]

\* recentPerformance.slice(-4)
LastFour(performance) ==
    IF Len(performance) <= 4 THEN performance
    ELSE SubSeq(performance, Len(performance) - 3, Len(performance))

\* generateNewQuestion(), run by the mount effect or by the timeout a
\* handleAnswer call started; it reads the state of the render it came from.
GenerateNewQuestion ==
    /\ timer # NoResult
    /\ question' = GenerateQuestionParameters(timer.skillEstimate,
                                              timer.recentPerformance)
    /\ selectedAnswer' = NoResult
    /\ timer' = NoResult
    /\ UNCHANGED <<correctAnswers, questionsAnswered, recentPerformance,
                   skillVars, now, trackerVars, attentionVars, collectorVars,
                   assistVars>>

\* handleAnswer(answer), with isCorrect = (answer === correctAnswer) and
\* timeSpent = Date.now() - questionStartTime
HandleAnswer(isCorrect, timeSpent) ==
    /\ selectedAnswer = NoResult
    /\ question # NoResult
    /\ LET newCorrect == IF isCorrect THEN correctAnswers + 1 ELSE correctAnswers
           m == Perf(newCorrect, questionsAnswered + 1, timeSpent)
       IN  /\ selectedAnswer' = [correct |-> isCorrect]
           /\ correctAnswers' = newCorrect
           /\ questionsAnswered' = questionsAnswered + 1
           /\ recentPerformance' =
                  Append(LastFour(recentPerformance),
                         [correct |-> isCorrect, timeSpent |-> timeSpent])
           /\ skillEstimate' = UpdateSkillEstimate(skillEstimate, m)
           /\ lastMetrics' = m
    /\ timer' = Closure
    /\ UNCHANGED <<question, difficulty, diagnosticResult, now, trackerVars,
                   attentionVars, collectorVars, assistVars>>

NextSkill ==
    \/ \E m \in MetricsInputs : UpdateSkill(m)
    \/ OptimalDifficulty


(***************************************************************************)
(* AttentionCheckSystem: src/lib/assistiveFeatures.ts                      *)
(***************************************************************************)
MIN_ATTENTION_CHECKS_PASSED == 2
MIN_INTERACTION_EVENTS == 5
MaxResponsePatterns == 20
MaxInteractionEvents == 50

RECURSIVE SumSeq(_)
SumSeq(s) == IF s = <<>> THEN 0 ELSE Head(s) + SumSeq(Tail(s))

RECURSIVE SumSquaredDeviations(_, _)
SumSquaredDeviations(s, mean) ==
    IF s = <<>> THEN R(0)
    ELSE RAdd(RMul(RSub(R(Head(s)), mean), RSub(R(Head(s)), mean)),
              SumSquaredDeviations(Tail(s), mean))

\* Math.sqrt(variance) / mean < bound, for variance >= 0 and bound > 0, as
\* IEEE arithmetic decides it: 0/0 is NaN and x/0 is Infinity (neither is
\* below the bound), a negative mean gives a quotient <= 0, and for a
\* positive mean both sides of sqrt(variance) < bound * mean can be squared.
SqrtOverMeanBelow(variance, mean, bound) ==
    IF mean = R(0) THEN FALSE
    ELSE IF RLt(mean, R(0)) THEN TRUE
    ELSE RLt(variance, RMul(RMul(bound, mean), RMul(bound, mean)))

\* String(x).toLowerCase() over the answers the checks use.
Str(x) == [str |-> x]
Number(x) == [num |-> x]
StringOf(v) ==
    IF "num" \in DOMAIN v
    THEN (CASE v.num = 3 -> "3" [] v.num = 5 -> "5" [] OTHER -> "4")
    ELSE v.str
ToLowerCase(s) ==
    CASE s = "Blue" -> "blue"
      [] s = "BLUE" -> "blue"
      [] s = "I am paying attention" -> "i am paying attention"
      [] s = "Continue" -> "continue"
      [] OTHER -> s

Passed(userAnswer, correctAnswer) ==
    ToLowerCase(StringOf(userAnswer)) = ToLowerCase(StringOf(correctAnswer))

PushResponse_NoEviction(log, responseTime) == Append(log, responseTime)
PushResponse(log, responseTime) ==
    LET pushed == Append(log, responseTime)
    IN  IF Len(pushed) > MaxResponsePatterns THEN Tail(pushed) ELSE pushed

PushInteraction(log, timestamp) ==
    LET pushed == Append(log, timestamp)
    IN  IF Len(pushed) > MaxInteractionEvents THEN Tail(pushed) ELSE pushed

DetectSuspiciousPatterns_AnyLength(log) ==
    /\ log # <<>>
    /\ LET mean == Rat(SumSeq(log), Len(log))
           variance == RMul(SumSquaredDeviations(log, mean), Rat(1, Len(log)))
       IN  SqrtOverMeanBelow(variance, mean, Rat(1, 10))
DetectSuspiciousPatterns(log) ==
    IF Len(log) < 5 THEN FALSE
    ELSE LET mean == Rat(SumSeq(log), Len(log))
             variance == RMul(SumSquaredDeviations(log, mean), Rat(1, Len(log)))
         IN  SqrtOverMeanBelow(variance, mean, Rat(1, 10))

DetectRapidClicking_WholeLog(events) ==
    /\ Len(events) >= 3
    /\ events[Len(events)] - events[1] < 500
DetectRapidClicking(events) ==
    IF Len(events) < 3 THEN FALSE
    ELSE LET recentEvents == SubSeq(events, Len(events) - 2, Len(events))
             timeSpan == recentEvents[Len(recentEvents)] - recentEvents[1]
         IN  timeSpan < 500

DetectAnomalousSpeed(log) ==
    IF Len(log) < 3 THEN FALSE
    ELSE LET avgResponseTime == Rat(SumSeq(log), Len(log))
         IN  RLt(avgResponseTime, R(300)) \/ RLt(R(30000), avgResponseTime)

QualityFlags_OnePassSuffices(cs, log, events) ==
    LET passed == Cardinality({i \in DOMAIN cs : cs[i].passed})
        total == Len(cs)
    IN  (IF total > 0 /\ passed < 1
            THEN <<"FAILED_ATTENTION_CHECKS">> ELSE <<>>)
        \o (IF DetectSuspiciousPatterns(log)
            THEN <<"SUSPICIOUS_PATTERN">> ELSE <<>>)
        \o (IF DetectRapidClicking(events) THEN <<"RAPID_CLICKING">> ELSE <<>>)
        \o (IF DetectAnomalousSpeed(log) THEN <<"ANOMALOUS_SPEED">> ELSE <<>>)
        \o (IF Len(events) < MIN_INTERACTION_EVENTS
            THEN <<"LOW_INTERACTION">> ELSE <<>>)
QualityFlags(cs, log, events) ==
    LET passed == Cardinality({i \in DOMAIN cs : cs[i].passed})
        total == Len(cs)
    IN  (IF total > 0 /\ passed < MIN_ATTENTION_CHECKS_PASSED
            THEN <<"FAILED_ATTENTION_CHECKS">> ELSE <<>>)
        \o (IF DetectSuspiciousPatterns(log)
            THEN <<"SUSPICIOUS_PATTERN">> ELSE <<>>)
        \o (IF DetectRapidClicking(events) THEN <<"RAPID_CLICKING">> ELSE <<>>)
        \o (IF DetectAnomalousSpeed(log) THEN <<"ANOMALOUS_SPEED">> ELSE <<>>)
        \o (IF Len(events) < MIN_INTERACTION_EVENTS
            THEN <<"LOW_INTERACTION">> ELSE <<>>)

HasFlag(flags, flag) == \E i \in DOMAIN flags : flags[i] = flag

AttentionScore_NoFloor(cs, nFlags) ==
    LET passed == Cardinality({i \in DOMAIN cs : cs[i].passed})
        total == Len(cs)
        baseScore == IF total > 0 THEN RMul(Rat(passed, total), R(100)) ELSE R(0)
    IN  R(Round(RSub(baseScore, R(nFlags * 10))))
\* Math.max(0, Math.round(baseScore - qualityFlags.length * penaltyPerFlag))
AttentionScore(cs, nFlags) ==
    LET passed == Cardinality({i \in DOMAIN cs : cs[i].passed})
        total == Len(cs)
        baseScore == IF total > 0 THEN RMul(Rat(passed, total), R(100)) ELSE R(0)
        penaltyPerFlag == 10
    IN  R(Max(0, Round(RSub(baseScore, R(nFlags * penaltyPerFlag)))))

EvaluateSessionQuality_IgnoreFlags(cs, log, events) ==
    LET qualityFlags == QualityFlags(cs, log, events)
        attentionScore == AttentionScore(cs, Len(qualityFlags))
    IN  [attentionChecksPassed |-> Cardinality({i \in DOMAIN cs : cs[i].passed}),
         attentionChecksFailed |-> Cardinality({i \in DOMAIN cs : ~cs[i].passed}),
         attentionScore |-> attentionScore,
         isValidSession |-> RLe(R(60), attentionScore),
         qualityFlags |-> qualityFlags]
EvaluateSessionQuality(cs, log, events) ==
    LET qualityFlags == QualityFlags(cs, log, events)
        attentionScore == AttentionScore(cs, Len(qualityFlags))
        criticalFlags == {"FAILED_ATTENTION_CHECKS", "SUSPICIOUS_PATTERN"}
        hasCriticalFlag ==
            \E i \in DOMAIN qualityFlags : qualityFlags[i] \in criticalFlags
    IN  [attentionChecksPassed |-> Cardinality({i \in DOMAIN cs : cs[i].passed}),
         attentionChecksFailed |-> Cardinality({i \in DOMAIN cs : ~cs[i].passed}),
         attentionScore |-> attentionScore,
         isValidSession |-> RLe(R(60), attentionScore) /\ ~hasCriticalFlag,
         qualityFlags |-> qualityFlags]

AttentionInit ==
    /\ checks = <<>>
    /\ responsePatterns = <<>>
    /\ interactionEvents = <<>>
    /\ quality = NoResult

RecordCheck(userAnswer, correctAnswer, responseTime, checkType) ==
    /\ checks' = Append(checks, [passed |-> Passed(userAnswer, correctAnswer),
                                 responseTime |-> responseTime,
                                 timestamp |-> now,
                                 checkType |-> checkType])
    /\ quality' = NoResult
    /\ UNCHANGED <<responsePatterns, interactionEvents, now, trackerVars, skillVars, collectorVars, gameVars,
            assistVars>>

RecordResponse(responseTime) ==
    /\ responsePatterns' = PushResponse(responsePatterns, responseTime)
    /\ quality' = NoResult
    /\ UNCHANGED <<checks, interactionEvents, now, trackerVars, skillVars, collectorVars, gameVars,
            assistVars>>

RecordInteraction ==
    /\ interactionEvents' = PushInteraction(interactionEvents, now)
    /\ quality' = NoResult
    /\ UNCHANGED <<checks, responsePatterns, now, trackerVars, skillVars, collectorVars, gameVars,
            assistVars>>

EvaluateQuality ==
    /\ quality' = EvaluateSessionQuality(checks, responsePatterns, interactionEvents)
    /\ UNCHANGED <<checks, responsePatterns, interactionEvents, now,
                   trackerVars, skillVars, collectorVars, gameVars,
                   assistVars>>

AttentionReset ==
    /\ checks' = <<>>
    /\ responsePatterns' = <<>>
    /\ interactionEvents' = <<>>
    /\ quality' = NoResult
    /\ UNCHANGED <<now, trackerVars, skillVars, collectorVars, gameVars, assistVars>>

\* The clock moves on between two handlers.
Tick(d) ==
    /\ now' = now + d
    /\ metrics' = NoResult
    /\ breakDue' = NoResult
    /\ UNCHANGED <<tracker, windowFocused, startTime, lastMousePos, totalMouseDistance,
                   interactionCount, isFocused, focusStartTime, totalFocusTime,
                   snapshots, lastSnapshotTime, eyeTracker, eyeTrackingEnabled,
                   audio, emotion, thresholds, skillVars, attentionVars, collectorVars, gameVars,
                   assistVars>>


(***************************************************************************)
(* EngagementTracker: src/lib/engagementTracker.ts                         *)
(* AdvancedEngagementTracker: src/lib/advancedEngagementTracker.ts         *)
(*                                                                         *)
(* One tracker instance is modelled; `tracker` says which class it is.     *)
(* The two classes keep the same counters, so they share the variables.    *)
(* lastFocusTime is written by the constructor and reset() and never read; *)
(* it is left out.                                                         *)
(***************************************************************************)
SNAPSHOT_INTERVAL == 2000
MOUSE_THRESHOLD == 5
MaxSnapshots == 30

\* Mouse positions: all on one line through the origin with slope 4/3, so
\* that every Euclidean distance between two of them is an integer (5 times
\* the difference of the scales) and Math.sqrt is exact.  They are a far
\* negative position, a jump to which saturates the mouse-activity term on
\* its own, a position exactly MOUSE_THRESHOLD from the origin, and one
\* just beyond it.
MouseScales == {-4000, 1, 2}
MousePoints == {[x |-> 3 * k, y |-> 4 * k] : k \in MouseScales}

\* Math.sqrt on the perfect squares the model meets (Newton's iteration).
RECURSIVE SqrtIter(_, _)
SqrtIter(n, x) ==
    LET y == (x + n \div x) \div 2
    IN  IF y >= x THEN x ELSE SqrtIter(n, y)
Sqrt(n) == IF n = 0 THEN 0 ELSE SqrtIter(n, n)

\* Math.sqrt(Math.pow(x - last.x, 2) + Math.pow(y - last.y, 2))
Distance(p, q) == Sqrt((p.x - q.x) * (p.x - q.x) + (p.y - q.y) * (p.y - q.y))

DefaultThresholds ==
    [minAttentionScore |-> 50, criticalAttentionScore |-> 30,
     minEngagementScore |-> 55, criticalEngagementScore |-> 35,
     maxFrustrationLevel |-> 60, criticalFrustrationLevel |-> 80,
     recommendedSessionLength |-> 25, maxSessionLength |-> 45,
     breakFrequency |-> 20]

\* What the eye tracker reports when asked: EyeTracker.getAttentionScore()
\* (clamped to 0..100 and rounded by engagementTracker.ts:605), whether
\* getGazeData() holds a sample, and the last fixation's duration.
EyeReadings ==
    { [attentionScore |-> 0, gaze |-> FALSE, fixationDuration |-> 0],
      [attentionScore |-> 55, gaze |-> TRUE, fixationDuration |-> 300],
      [attentionScore |-> 100, gaze |-> TRUE, fixationDuration |-> 300] }

\* this.snapshots.push(snapshot); if (this.snapshots.length > 30) shift()
PushSnapshot_NoEviction(buffer, snapshot) == Append(buffer, snapshot)
PushSnapshot(buffer, snapshot) ==
    LET pushed == Append(buffer, snapshot)
    IN  IF Len(pushed) > MaxSnapshots THEN Tail(pushed) ELSE pushed

\* The focused time as getMetrics() computes it.
CurrentFocusTime ==
    IF isFocused THEN totalFocusTime + (now - focusStartTime) ELSE totalFocusTime

\* Math.min(100, focusRatio * 100), focusRatio = 0 when totalTime <= 0
BaseFocusScore ==
    LET totalTime == now - startTime
        focusRatio ==
            IF totalTime > 0 THEN Rat(CurrentFocusTime, totalTime) ELSE R(0)
    IN  RMin(R(100), RMul(focusRatio, R(100)))

\* (interactionCount / (totalTime / 1000)) * 10, 0 when totalTime <= 0
InteractionRate ==
    LET totalTime == now - startTime
    IN  IF totalTime > 0
        THEN RMul(Rat(interactionCount * 1000, totalTime), R(10))
        ELSE R(0)

\* Math.min(100, (totalMouseDistance / 1000) * 10)
MouseActivity(distance) == RMin(R(100), RMul(Rat(distance, 1000), R(10)))

\* EngagementTracker.getMetrics()
GetMetrics_Unclamped ==
    LET totalTime == now - startTime
        attentionScore ==
            IF totalTime > 0 THEN Rat(CurrentFocusTime * 100, totalTime) ELSE R(0)
        engagementScore ==
            RAdd(RAdd(RMul(attentionScore, Rat(4, 10)),
                      RMul(RMul(InteractionRate, R(10)), Rat(3, 10))),
                 RMul(Rat(totalMouseDistance, 100), Rat(3, 10)))
    IN  [focusTime |-> CurrentFocusTime,
         activeTime |-> now - startTime,
         interactionCount |-> interactionCount,
         mouseMovement |-> totalMouseDistance,
         attentionScore |-> Round(attentionScore),
         engagementScore |-> Round(engagementScore)]
GetMetrics ==
    LET attentionScore == BaseFocusScore
        engagementScore ==
            RMin(R(100),
                 RAdd(RAdd(RMul(attentionScore, Rat(4, 10)),
                           RMul(RMin(R(100), RMul(InteractionRate, R(10))),
                                Rat(3, 10))),
                      RMul(MouseActivity(totalMouseDistance), Rat(3, 10))))
    IN  [focusTime |-> CurrentFocusTime,
         activeTime |-> now - startTime,
         interactionCount |-> interactionCount,
         mouseMovement |-> totalMouseDistance,
         attentionScore |-> Round(attentionScore),
         engagementScore |-> Round(engagementScore)]

\* The engagement score of AdvancedEngagementTracker.getMetrics() before
\* Math.round, from the combined attention score.
AdvEngagementRaw(attentionScore, distance) ==
    RMin(R(100),
         RAdd(RAdd(RAdd(RMul(attentionScore, Rat(4, 10)),
                        RMul(RMin(R(100), RMul(InteractionRate, R(10))),
                             Rat(2, 10))),
                   RAdd(RMul(MouseActivity(distance), Rat(1, 10)),
                        RMul(R(audio.engagement), Rat(2, 10)))),
              RMul(RSub(R(100), emotion.frustration), Rat(1, 10))))

\* The combined attention score: eye data dominates when tracking is enabled.
AdvAttentionRaw_AlwaysFused(eye) ==
    LET eyeTrackingScore ==
            IF eyeTrackingEnabled /\ eyeTracker THEN eye.attentionScore ELSE 0
    IN  RAdd(RMul(BaseFocusScore, Rat(3, 10)),
             RMul(R(eyeTrackingScore), Rat(7, 10)))
AdvAttentionRaw(eye) ==
    LET eyeTrackingScore ==
            IF eyeTrackingEnabled /\ eyeTracker THEN eye.attentionScore ELSE 0
    IN  IF eyeTrackingEnabled
        THEN RAdd(RMul(BaseFocusScore, Rat(3, 10)),
                  RMul(R(eyeTrackingScore), Rat(7, 10)))
        ELSE BaseFocusScore

EngagementLevel_HighFirst(attentionScore, engagementScore) ==
    IF RLe(R(70), engagementScore) /\ RLe(R(70), attentionScore)
    THEN "high"
    ELSE IF \/ RLt(attentionScore, R(thresholds.criticalAttentionScore))
            \/ RLt(engagementScore, R(thresholds.criticalEngagementScore))
            \/ RLt(R(thresholds.criticalFrustrationLevel), emotion.frustration)
    THEN "critical"
    ELSE IF \/ RLt(attentionScore, R(thresholds.minAttentionScore))
            \/ RLt(engagementScore, R(thresholds.minEngagementScore))
            \/ RLt(R(thresholds.maxFrustrationLevel), emotion.frustration)
    THEN "low"
    ELSE "medium"
EngagementLevel(attentionScore, engagementScore) ==
    IF \/ RLt(attentionScore, R(thresholds.criticalAttentionScore))
       \/ RLt(engagementScore, R(thresholds.criticalEngagementScore))
       \/ RLt(R(thresholds.criticalFrustrationLevel), emotion.frustration)
    THEN "critical"
    ELSE IF \/ RLt(attentionScore, R(thresholds.minAttentionScore))
            \/ RLt(engagementScore, R(thresholds.minEngagementScore))
            \/ RLt(R(thresholds.maxFrustrationLevel), emotion.frustration)
    THEN "low"
    ELSE IF RLe(R(70), engagementScore) /\ RLe(R(70), attentionScore)
    THEN "high"
    ELSE "medium"

\* AdvancedEngagementTracker.getMetrics(), with the eye tracker reading
\* `eye` and the mouse distance travelled `distance`.  The scanpath figures
\* it copies from the eye tracker (avgFixationDuration, gazeDispersion,
\* saccadeVelocity) feed no score and are left out of the record.
AdvMetrics(distance, eye) ==
    LET attentionScore == AdvAttentionRaw(eye)
        engagementScore == AdvEngagementRaw(attentionScore, distance)
    IN  [focusTime |-> CurrentFocusTime,
         activeTime |-> now - startTime,
         interactionCount |-> interactionCount,
         mouseMovement |-> distance,
         eyeTrackingScore |->
             IF eyeTrackingEnabled /\ eyeTracker THEN eye.attentionScore ELSE 0,
         audioEngagementScore |-> audio.engagement,
         speechRate |-> audio.speechRate,
         responseLatency |-> audio.latency,
         attentionScore |-> Round(attentionScore),
         engagementScore |-> Round(engagementScore),
         frustrationLevel |-> Round(emotion.frustration),
         confusionLevel |-> Round(emotion.confusion),
         engagementLevel |-> EngagementLevel(attentionScore, engagementScore)]
AdvGetMetrics(eye) == AdvMetrics(totalMouseDistance, eye)

TrackerInit ==
    /\ startTime = now
    /\ lastMousePos = [x |-> 0, y |-> 0]
    /\ totalMouseDistance = 0
    /\ interactionCount = 0
    /\ isFocused = TRUE
    /\ windowFocused = TRUE
    /\ focusStartTime = now
    /\ totalFocusTime = 0
    /\ snapshots = <<>>
    /\ lastSnapshotTime = 0
    /\ eyeTracker = FALSE
    /\ eyeTrackingEnabled = FALSE
    /\ audio = [engagement |-> 0, speechRate |-> 0, latency |-> 0]
    /\ emotion = [frustration |-> R(0), confusion |-> R(0)]
    /\ thresholds = DefaultThresholds
    /\ metrics = NoResult
    /\ breakDue = NoResult

\* The mouse part of trackMouse, the same code in both classes.
MouseMoved_AtThreshold(p) == Distance(p, lastMousePos) >= MOUSE_THRESHOLD
MouseMoved(p) == Distance(p, lastMousePos) > MOUSE_THRESHOLD
DistanceAfter(p) ==
    IF MouseMoved(p)
    THEN totalMouseDistance + Distance(p, lastMousePos)
    ELSE totalMouseDistance
TrackDistance(p) ==
    /\ totalMouseDistance' = DistanceAfter(p)
    /\ lastMousePos' = IF MouseMoved(p) THEN p ELSE lastMousePos

\* handleFocus / handleBlur, the same code in both classes.
FocusGained ==
    IF ~isFocused
    THEN isFocused' = TRUE /\ focusStartTime' = now /\ UNCHANGED totalFocusTime
    ELSE UNCHANGED <<isFocused, focusStartTime, totalFocusTime>>
FocusLost ==
    IF isFocused
    THEN /\ isFocused' = FALSE
         /\ totalFocusTime' = totalFocusTime + (now - focusStartTime)
         /\ UNCHANGED focusStartTime
    ELSE UNCHANGED <<isFocused, focusStartTime, totalFocusTime>>

\* Marks the newest snapshot, if there is one.
MarkInteraction(buffer) ==
    IF Len(buffer) > 0
    THEN [buffer EXCEPT ![Len(buffer)].hasInteraction = TRUE]
    ELSE buffer

\* ---- EngagementTracker

\* window 'focus', or 'visibilitychange' with the document visible
HandleFocus ==
    /\ tracker = "EngagementTracker"
    /\ FocusGained
    /\ windowFocused' = TRUE
    /\ metrics' = NoResult
    /\ breakDue' = NoResult
    /\ UNCHANGED <<tracker, startTime, lastMousePos, totalMouseDistance,
                   interactionCount, snapshots, lastSnapshotTime,
                   eyeTracker, eyeTrackingEnabled, audio, emotion, thresholds,
                   now, skillVars, attentionVars, collectorVars, gameVars,
                   assistVars>>

\* window 'blur', or 'visibilitychange' with the document hidden
HandleBlur ==
    /\ tracker = "EngagementTracker"
    /\ FocusLost
    /\ windowFocused' = FALSE
    /\ metrics' = NoResult
    /\ breakDue' = NoResult
    /\ UNCHANGED <<tracker, startTime, lastMousePos, totalMouseDistance,
                   interactionCount, snapshots, lastSnapshotTime,
                   eyeTracker, eyeTrackingEnabled, audio, emotion, thresholds,
                   now, skillVars, attentionVars, collectorVars, gameVars,
                   assistVars>>

TrackMouse(p) ==
    /\ tracker = "EngagementTracker"
    /\ TrackDistance(p)
    /\ IF now - lastSnapshotTime >= SNAPSHOT_INTERVAL
       THEN /\ snapshots' =
                   PushSnapshot(snapshots,
                                [timestamp |-> now, isFocused |-> isFocused,
                                 mouseX |-> p.x, mouseY |-> p.y,
                                 hasInteraction |-> FALSE])
            /\ lastSnapshotTime' = now
       ELSE UNCHANGED <<snapshots, lastSnapshotTime>>
    /\ metrics' = NoResult
    /\ breakDue' = NoResult
    /\ UNCHANGED <<tracker, windowFocused, startTime, interactionCount, isFocused,
                   focusStartTime, totalFocusTime, eyeTracker,
                   eyeTrackingEnabled, audio, emotion, thresholds,
                   now, skillVars, attentionVars, collectorVars, gameVars,
                   assistVars>>

TrackInteraction ==
    /\ tracker = "EngagementTracker"
    /\ interactionCount' = interactionCount + 1
    /\ snapshots' = MarkInteraction(snapshots)
    /\ metrics' = NoResult
    /\ breakDue' = NoResult
    /\ UNCHANGED <<tracker, windowFocused, startTime, lastMousePos, totalMouseDistance,
                   isFocused, focusStartTime, totalFocusTime, lastSnapshotTime,
                   eyeTracker, eyeTrackingEnabled, audio, emotion, thresholds,
                   now, skillVars, attentionVars, collectorVars, gameVars,
                   assistVars>>

CallGetMetrics ==
    /\ tracker = "EngagementTracker"
    /\ metrics' = GetMetrics
    /\ UNCHANGED breakDue
    /\ UNCHANGED <<tracker, windowFocused, startTime, lastMousePos, totalMouseDistance,
                   interactionCount, isFocused, focusStartTime, totalFocusTime,
                   snapshots, lastSnapshotTime, eyeTracker, eyeTrackingEnabled,
                   audio, emotion, thresholds, now, skillVars, attentionVars, collectorVars, gameVars,
                   assistVars>>

Reset_KeepSnapshots ==
    /\ tracker = "EngagementTracker"
    /\ startTime' = now
    /\ lastMousePos' = [x |-> 0, y |-> 0]
    /\ totalMouseDistance' = 0
    /\ interactionCount' = 0
    /\ isFocused' = TRUE
    /\ focusStartTime' = now
    /\ totalFocusTime' = 0
    /\ lastSnapshotTime' = 0
    /\ metrics' = NoResult
    /\ breakDue' = NoResult
    /\ UNCHANGED <<snapshots, windowFocused, tracker, eyeTracker, eyeTrackingEnabled, audio,
                   emotion, thresholds, now, skillVars, attentionVars,
                   collectorVars, gameVars, assistVars>>
Reset ==
    /\ tracker = "EngagementTracker"
    /\ startTime' = now
    /\ lastMousePos' = [x |-> 0, y |-> 0]
    /\ totalMouseDistance' = 0
    /\ interactionCount' = 0
    /\ isFocused' = TRUE
    /\ focusStartTime' = now
    /\ totalFocusTime' = 0
    /\ snapshots' = <<>>
    /\ lastSnapshotTime' = 0
    /\ metrics' = NoResult
    /\ breakDue' = NoResult
    /\ UNCHANGED <<tracker, windowFocused, eyeTracker, eyeTrackingEnabled, audio, emotion,
                   thresholds, now, skillVars, attentionVars, collectorVars, gameVars,
                   assistVars>>

\* ---- AdvancedEngagementTracker

AdvHandleFocus ==
    /\ tracker = "AdvancedEngagementTracker"
    /\ FocusGained
    /\ windowFocused' = TRUE
    /\ metrics' = NoResult
    /\ breakDue' = NoResult
    /\ UNCHANGED <<tracker, startTime, lastMousePos, totalMouseDistance,
                   interactionCount, snapshots, lastSnapshotTime,
                   eyeTracker, eyeTrackingEnabled, audio, emotion, thresholds,
                   now, skillVars, attentionVars, collectorVars, gameVars,
                   assistVars>>

AdvHandleBlur ==
    /\ tracker = "AdvancedEngagementTracker"
    /\ FocusLost
    /\ windowFocused' = FALSE
    /\ metrics' = NoResult
    /\ breakDue' = NoResult
    /\ UNCHANGED <<tracker, startTime, lastMousePos, totalMouseDistance,
                   interactionCount, snapshots, lastSnapshotTime,
                   eyeTracker, eyeTrackingEnabled, audio, emotion, thresholds,
                   now, skillVars, attentionVars, collectorVars, gameVars,
                   assistVars>>

\* enableEyeTracking(): the tracker object is fetched, and tracking is
\* enabled only if startTracking() resolves to true (it resolves to false, or
\* throws, when the camera or the library is unavailable).
EnableEyeTracking(started) ==
    /\ tracker = "AdvancedEngagementTracker"
    /\ eyeTracker' = TRUE
    /\ eyeTrackingEnabled' = IF started THEN TRUE ELSE eyeTrackingEnabled
    /\ metrics' = NoResult
    /\ breakDue' = NoResult
    /\ UNCHANGED <<tracker, windowFocused, startTime, lastMousePos, totalMouseDistance,
                   interactionCount, isFocused, focusStartTime, totalFocusTime,
                   snapshots, lastSnapshotTime, audio, emotion, thresholds,
                   now, skillVars, attentionVars, collectorVars, gameVars,
                   assistVars>>

DisableEyeTracking ==
    /\ tracker = "AdvancedEngagementTracker"
    /\ eyeTrackingEnabled' = IF eyeTracker THEN FALSE ELSE eyeTrackingEnabled
    /\ metrics' = NoResult
    /\ breakDue' = NoResult
    /\ UNCHANGED <<tracker, windowFocused, startTime, lastMousePos, totalMouseDistance,
                   interactionCount, isFocused, focusStartTime, totalFocusTime,
                   snapshots, lastSnapshotTime, eyeTracker, audio, emotion,
                   thresholds, now, skillVars, attentionVars, collectorVars, gameVars,
                   assistVars>>

UpdateAudioMetrics(engagement, speechRate, latency) ==
    /\ tracker = "AdvancedEngagementTracker"
    /\ audio' = [engagement |-> engagement, speechRate |-> speechRate,
                 latency |-> latency]
    /\ metrics' = NoResult
    /\ breakDue' = NoResult
    /\ UNCHANGED <<tracker, windowFocused, startTime, lastMousePos, totalMouseDistance,
                   interactionCount, isFocused, focusStartTime, totalFocusTime,
                   snapshots, lastSnapshotTime, eyeTracker, eyeTrackingEnabled,
                   emotion, thresholds, now, skillVars, attentionVars, collectorVars, gameVars,
                   assistVars>>

UpdateEmotionalState(frustration, confusion) ==
    /\ tracker = "AdvancedEngagementTracker"
    /\ emotion' = [frustration |-> frustration, confusion |-> confusion]
    /\ metrics' = NoResult
    /\ breakDue' = NoResult
    /\ UNCHANGED <<tracker, windowFocused, startTime, lastMousePos, totalMouseDistance,
                   interactionCount, isFocused, focusStartTime, totalFocusTime,
                   snapshots, lastSnapshotTime, eyeTracker, eyeTrackingEnabled,
                   audio, thresholds, now, skillVars, attentionVars, collectorVars, gameVars,
                   assistVars>>

\* takeSnapshot(mouseX, mouseY, hasInteraction): getMetrics() is read after
\* trackMouse has updated the mouse distance.
TakeSnapshot(p, hasInteraction, eye) ==
    IF now - lastSnapshotTime < SNAPSHOT_INTERVAL
    THEN UNCHANGED <<snapshots, lastSnapshotTime>>
    ELSE LET m == AdvMetrics(DistanceAfter(p), eye) IN
         /\ snapshots' =
                PushSnapshot(snapshots,
                    [timestamp |-> now, isFocused |-> isFocused,
                     mouseX |-> p.x, mouseY |-> p.y,
                     hasInteraction |-> hasInteraction,
                     eyeGaze |-> eyeTrackingEnabled /\ eyeTracker /\ eye.gaze,
                     fixationDuration |->
                         IF eyeTrackingEnabled /\ eyeTracker
                         THEN eye.fixationDuration ELSE 0,
                     attentionScore |-> m.attentionScore,
                     engagementScore |-> m.engagementScore,
                     frustrationLevel |-> m.frustrationLevel])
         /\ lastSnapshotTime' = now

AdvTrackMouse(p, eye) ==
    /\ tracker = "AdvancedEngagementTracker"
    /\ TrackDistance(p)
    /\ UNCHANGED <<tracker, windowFocused, startTime, interactionCount, isFocused,
                   focusStartTime, totalFocusTime, eyeTracker,
                   eyeTrackingEnabled, audio, emotion, thresholds,
                   now, skillVars, attentionVars, collectorVars, gameVars,
                   assistVars>>
    /\ TakeSnapshot(p, FALSE, eye)
    /\ metrics' = NoResult
    /\ breakDue' = NoResult

AdvTrackInteraction ==
    /\ tracker = "AdvancedEngagementTracker"
    /\ interactionCount' = interactionCount + 1
    /\ snapshots' = MarkInteraction(snapshots)
    /\ metrics' = NoResult
    /\ breakDue' = NoResult
    /\ UNCHANGED <<tracker, windowFocused, startTime, lastMousePos, totalMouseDistance,
                   isFocused, focusStartTime, totalFocusTime, lastSnapshotTime,
                   eyeTracker, eyeTrackingEnabled, audio, emotion, thresholds,
                   now, skillVars, attentionVars, collectorVars, gameVars,
                   assistVars>>

AdvCallGetMetrics(eye) ==
    /\ tracker = "AdvancedEngagementTracker"
    /\ metrics' = AdvGetMetrics(eye)
    /\ UNCHANGED breakDue
    /\ UNCHANGED <<tracker, windowFocused, startTime, lastMousePos, totalMouseDistance,
                   interactionCount, isFocused, focusStartTime, totalFocusTime,
                   snapshots, lastSnapshotTime, eyeTracker, eyeTrackingEnabled,
                   audio, emotion, thresholds, now, skillVars, attentionVars, collectorVars, gameVars,
                   assistVars>>

\* setThresholds(partial): { ...this.thresholds, ...partial }
MergeThresholds(current, partial) ==
    [k \in DOMAIN current |->
        IF k \in DOMAIN partial THEN partial[k] ELSE current[k]]

SetThresholds(partial) ==
    /\ tracker = "AdvancedEngagementTracker"
    /\ thresholds' = MergeThresholds(thresholds, partial)
    /\ metrics' = NoResult
    /\ breakDue' = NoResult
    /\ UNCHANGED <<tracker, windowFocused, startTime, lastMousePos, totalMouseDistance,
                   interactionCount, isFocused, focusStartTime, totalFocusTime,
                   snapshots, lastSnapshotTime, eyeTracker, eyeTrackingEnabled,
                   audio, emotion, now, skillVars, attentionVars,
                   collectorVars, gameVars, assistVars>>

\* the decision of shouldTriggerBreak() on the metrics m it has just read
ShouldBreak_IgnoreLevel(m) ==
    \/ RLe(R(thresholds.breakFrequency), Rat(m.activeTime, 60000))
    \/ m.frustrationLevel >= thresholds.criticalFrustrationLevel
ShouldBreak(m) ==
    LET minutesActive == Rat(m.activeTime, 60000)
    IN  \/ RLe(R(thresholds.breakFrequency), minutesActive)
        \/ m.engagementLevel = "critical"
        \/ m.frustrationLevel >= thresholds.criticalFrustrationLevel

\* shouldTriggerBreak(), the eye tracker reading `eye` when it is asked
ShouldTriggerBreak(eye) ==
    /\ tracker = "AdvancedEngagementTracker"
    /\ LET m == AdvGetMetrics(eye)
       IN  breakDue' = [value |-> ShouldBreak(m), metrics |-> m]
    /\ UNCHANGED <<tracker, windowFocused, startTime, lastMousePos, totalMouseDistance,
                   interactionCount, isFocused, focusStartTime, totalFocusTime,
                   snapshots, lastSnapshotTime, eyeTracker, eyeTrackingEnabled,
                   audio, emotion, thresholds, metrics, now, skillVars,
                   attentionVars, collectorVars, gameVars, assistVars>>

AdvReset ==
    /\ tracker = "AdvancedEngagementTracker"
    /\ startTime' = now
    /\ lastMousePos' = [x |-> 0, y |-> 0]
    /\ totalMouseDistance' = 0
    /\ interactionCount' = 0
    /\ isFocused' = TRUE
    /\ focusStartTime' = now
    /\ totalFocusTime' = 0
    /\ snapshots' = <<>>
    /\ lastSnapshotTime' = 0
    /\ audio' = [engagement |-> 0, speechRate |-> 0, latency |-> 0]
    /\ emotion' = [frustration |-> R(0), confusion |-> R(0)]
    /\ metrics' = NoResult
    /\ breakDue' = NoResult
    /\ UNCHANGED <<tracker, windowFocused, eyeTracker, eyeTrackingEnabled, thresholds,
                   now, skillVars, attentionVars, collectorVars, gameVars,
                   assistVars>>

(***************************************************************************)
(* ResearchDataCollector (src/lib/researchDataPipeline.ts): pseudonyms     *)
(*                                                                         *)
(* A string is the sequence of its UTF-16 code units.  hashUserId folds    *)
(* them into a 32-bit integer; the integer is kept as its two 16-bit       *)
(* halves <<high, low>> so that the wrap at 2^32 is the one of the code.   *)
(***************************************************************************)
\* instances of ResearchDataCollector that are alive
NumCollectors == 2
Collectors == 1..NumCollectors

\* "user-1", "user-2"
UserIds == {<<117, 115, 101, 114, 45, 49>>, <<117, 115, 101, 114, 45, 50>>}

\* generateSalt(): two Math.random().toString(36).substring(2, 15) pieces, one
\* after the other: any string of up to 26 characters of 0-9a-z.  The draws
\* here are "anx", "c0x" and "7k".
Salts == {<<97, 110, 120>>, <<99, 48, 120>>, <<55, 107>>}

Half == 65536

\* hash = (hash << 5) - hash + char; hash = hash & hash
\* : 31 * hash + char, reduced modulo 2^32.
HashStep(hash, char) ==
    LET low == 31 * hash[2] + char
        high == 31 * hash[1] + (low \div Half)
    IN  <<high % Half, low % Half>>

RECURSIVE HashFold(_, _)
HashFold(hash, combined) ==
    IF combined = <<>> THEN hash
    ELSE HashFold(HashStep(hash, Head(combined)), Tail(combined))

\* Math.abs of the signed 32-bit integer whose bits are <<high, low>>
MathAbs(hash) ==
    IF hash[1] < Half \div 2 THEN hash
    ELSE IF hash[2] = 0 THEN <<Half - hash[1], 0>>
    ELSE <<Half - 1 - hash[1], Half - hash[2]>>

\* one digit of Number.prototype.toString(36)
Digit36(d) == IF d < 10 THEN 48 + d ELSE 97 + (d - 10)

RECURSIVE Digits36(_)
Digits36(n) ==
    IF n = <<0, 0>> THEN <<>>
    ELSE LET rest == (n[1] % 36) * Half + n[2]
         IN  Append(Digits36(<<n[1] \div 36, rest \div 36>>),
                    Digit36(rest % 36))

ToString36(n) == IF n = <<0, 0>> THEN <<48>> ELSE Digits36(n)

ToUpperCase(s) ==
    [i \in 1..Len(s) |-> IF s[i] >= 97 /\ s[i] <= 122 THEN s[i] - 32 ELSE s[i]]

\* `ANON-${Math.abs(hash).toString(36).toUpperCase()}`
HashUserId(userId, salt) ==
    <<65, 78, 79, 78, 45>>
        \o ToUpperCase(ToString36(MathAbs(HashFold(<<0, 0>>, userId \o salt))))

Has(c, userId) == \E e \in pseudonymMap[c] : e.userId = userId
Get(c, userId) == CHOOSE e \in pseudonymMap[c] : e.userId = userId

CollectorInit ==
    /\ pseudonymMap = [c \in Collectors |-> {}]
    /\ pseudoId = NoResult

\* generatePseudonymousId(userId) on instance c; salt is what generateSalt()
\* draws when it is called.
GeneratePseudonymousId(c, userId, salt) ==
    /\ IF Has(c, userId)
       THEN /\ pseudoId' = [collector |-> c, userId |-> userId,
                            value |-> Get(c, userId).pseudoId]
            /\ UNCHANGED pseudonymMap
       ELSE LET id == HashUserId(userId, salt)
            IN  /\ pseudonymMap' =
                       [pseudonymMap EXCEPT ![c] = @ \cup
                           {[userId |-> userId, pseudoId |-> id,
                             salt |-> salt, createdAt |-> now]}]
                /\ pseudoId' = [collector |-> c, userId |-> userId,
                                value |-> id]
    /\ UNCHANGED <<now, trackerVars, skillVars, attentionVars, gameVars, assistVars>>

ClearAllData(c) ==
    /\ pseudonymMap' = [pseudonymMap EXCEPT ![c] = {}]
    /\ UNCHANGED <<pseudoId, now, trackerVars, skillVars, attentionVars, gameVars,
            assistVars>>

(***************************************************************************)
(* LearnerModelEngine: src/lib/learnerModel.ts                             *)
(***************************************************************************)
\* cap on the denominator of a skill level: each session multiplies the
\* levels by 0.8, so this caps the sessions that add a digit
MaxSkillDen == 5 * 5 * 5
MsPerDay == 1000 * 60 * 60 * 24

\* { ...current, ...partial }
Spread(current, partial) ==
    [k \in DOMAIN current |->
        IF k \in DOMAIN partial THEN partial[k] ELSE current[k]]

\* values.reduce((a, b) => a + b, 0), summed by halves
RECURSIVE RSumRange(_, _, _)
RSumRange(s, first, last) ==
    IF first > last THEN R(0)
    ELSE IF first = last THEN s[first]
    ELSE LET mid == (first + last) \div 2
         IN  RAdd(RSumRange(s, first, mid), RSumRange(s, mid + 1, last))
RSum(s) == RSumRange(s, 1, Len(s))

\* new LearnerModelEngine(userId) without a baseline profile
\* (attentionMetrics is never read or written by the engine and is left out)
DefaultLearnerModel(t) ==
    [ skillProfile |-> [numberSense |-> R(50), magnitude |-> R(50),
                        sequencing |-> R(50), wordProblems |-> R(50),
                        arithmeticFluency |-> R(50)],
      errorPatterns |-> <<>>,
      responseMetrics |-> [meanResponseTime |-> R(3000),
                           responseTimeVariance |-> R(1000),
                           hesitationCount |-> 0, confidenceLevel |-> 5],
      mouseBehavior |-> [trajectoryEntropy |-> 0, hesitationPatterns |-> <<>>,
                         clickAccuracy |-> 0, movementSmoothness |-> 0],
      cognitiveMetrics |-> [workingMemoryScore |-> R(50),
                            attentionScore |-> R(50),
                            processingSpeed |-> R(20),
                            inhibitionControl |-> R(50)],
      affectiveState |-> [confidence |-> 5, frustration |-> 30, anxiety |-> 50,
                          avoidanceSignals |-> 0, engagement |-> 50],
      currentDifficulty |-> R(3),
      hintFrequency |-> Rat(1, 2),
      taskPacing |-> R(1),
      feedbackTone |-> "encouraging",
      sessions |-> <<>>,
      totalSessions |-> 0,
      consecutiveDays |-> 0,
      lastSessionDate |-> NoResult,
      createdAt |-> t,
      lastUpdated |-> t ]

UpdateSkillProfile(m, accuracy) ==
    LET alpha == Rat(2, 10)
    IN  [m EXCEPT !.skillProfile =
            [skill \in DOMAIN m.skillProfile |->
                RAdd(RMul(m.skillProfile[skill], RSub(R(1), alpha)),
                     RMul(accuracy, alpha))]]

UpdateResponseMetrics(m, responseTimes) ==
    IF Len(responseTimes) = 0 THEN m
    ELSE
        LET n == Len(responseTimes)
            mean == RMul(RSum([i \in 1..n |-> R(responseTimes[i])]), Rat(1, n))
            squares == [i \in 1..n |->
                           LET d == RSub(R(responseTimes[i]), mean)
                           IN  RMul(d, d)]
            variance == RMul(RSum(squares), Rat(1, n))
            hesitations ==
                Cardinality({i \in 1..n :
                                RLt(RMul(mean, R(2)), R(responseTimes[i]))})
        IN  [m EXCEPT !.responseMetrics.meanResponseTime = mean,
                      !.responseMetrics.responseTimeVariance = variance,
                      !.responseMetrics.hesitationCount = hesitations]

\* errorPatterns.find(e => same errorType and context): the first index, or 0
FindPattern(patterns, error) ==
    LET found == {i \in 1..Len(patterns) :
                     /\ patterns[i].errorType = error.errorType
                     /\ patterns[i].context = error.context}
    IN  IF found = {} THEN 0
        ELSE CHOOSE i \in found : \A j \in found : i <= j

RECURSIVE InsertPattern(_, _)
InsertPattern(e, sorted) ==
    IF sorted = <<>> THEN <<e>>
    ELSE IF Head(sorted).lastOccurrence >= e.lastOccurrence
         THEN <<Head(sorted)>> \o InsertPattern(e, Tail(sorted))
         ELSE <<e>> \o sorted

\* errorPatterns.sort((a, b) => b.lastOccurrence - a.lastOccurrence): newest
\* first, patterns of the same millisecond keeping their order
RECURSIVE SortPatterns(_)
SortPatterns(patterns) ==
    IF patterns = <<>> THEN <<>>
    ELSE InsertPattern(patterns[Len(patterns)],
                       SortPatterns(SubSeq(patterns, 1, Len(patterns) - 1)))

RECURSIVE AddErrors(_, _, _)
AddErrors(patterns, newErrors, t) ==
    IF newErrors = <<>> THEN patterns
    ELSE
        LET error == Head(newErrors)
            i == FindPattern(patterns, error)
            added ==
                IF i # 0
                THEN [patterns EXCEPT ![i].frequency = @ + 1,
                                      ![i].lastOccurrence = t]
                ELSE Append(patterns, [error EXCEPT !.lastOccurrence = t])
        IN  AddErrors(added, Tail(newErrors), t)

UpdateErrorPatterns(m, newErrors, t) ==
    LET all == AddErrors(m.errorPatterns, newErrors, t)
    IN  [m EXCEPT !.errorPatterns =
            IF Len(all) > 50 THEN SubSeq(SortPatterns(all), 1, 50) ELSE all]

UpdateMouseBehavior(m, data) ==
    [m EXCEPT !.mouseBehavior = Spread(m.mouseBehavior, data)]

UpdateCognitiveMetrics(m, scores) ==
    LET alpha == Rat(3, 10)
    IN  [m EXCEPT !.cognitiveMetrics =
            [metric \in DOMAIN m.cognitiveMetrics |->
                IF metric \in DOMAIN scores
                THEN RAdd(RMul(m.cognitiveMetrics[metric], RSub(R(1), alpha)),
                          RMul(R(scores[metric]), alpha))
                ELSE m.cognitiveMetrics[metric]]]

UpdateAffectiveState(m, inputs) ==
    LET merged == Spread(m.affectiveState, inputs)
    IN  [m EXCEPT !.affectiveState =
            IF m.responseMetrics.hesitationCount > 3
            THEN [merged EXCEPT !.frustration = Min(100, merged.frustration + 10)]
            ELSE [merged EXCEPT !.frustration = Max(0, merged.frustration - 5)]]

AvgSkill(m) ==
    LET p == m.skillProfile
    IN  RMul(RAdd(RAdd(RAdd(RAdd(p.numberSense, p.magnitude), p.sequencing),
                       p.wordProblems), p.arithmeticFluency),
             Rat(1, 5))

AdaptParameters_Unclamped(m) ==
    LET affectiveState == m.affectiveState
        avgSkill == AvgSkill(m)
        meanResponseTime == m.responseMetrics.meanResponseTime
    IN  [m EXCEPT
          !.currentDifficulty =
              IF RLt(R(80), avgSkill) /\ affectiveState.frustration < 30
              THEN RAdd(@, Rat(1, 2))
              ELSE IF RLt(avgSkill, R(40)) \/ affectiveState.frustration > 70
              THEN RSub(@, Rat(1, 2))
              ELSE @,
          !.hintFrequency =
              IF affectiveState.confidence < 4 \/ Len(m.errorPatterns) > 10
              THEN RAdd(@, Rat(1, 10))
              ELSE IF affectiveState.confidence > 7
              THEN RSub(@, Rat(1, 10))
              ELSE @,
          !.taskPacing =
              IF RLt(R(5000), meanResponseTime)
              THEN RSub(@, Rat(1, 10))
              ELSE IF RLt(meanResponseTime, R(2000))
              THEN RAdd(@, Rat(1, 10))
              ELSE @,
          !.feedbackTone =
              IF affectiveState.anxiety > 60 \/ affectiveState.frustration > 60
              THEN "encouraging"
              ELSE IF affectiveState.confidence > 7
                      /\ affectiveState.engagement > 70
              THEN "directive"
              ELSE "neutral"]
AdaptParameters(m) ==
    LET affectiveState == m.affectiveState
        avgSkill == AvgSkill(m)
        meanResponseTime == m.responseMetrics.meanResponseTime
    IN  [m EXCEPT
          !.currentDifficulty =
              IF RLt(R(80), avgSkill) /\ affectiveState.frustration < 30
              THEN RMin(R(10), RAdd(@, Rat(1, 2)))
              ELSE IF RLt(avgSkill, R(40)) \/ affectiveState.frustration > 70
              THEN RMax(R(1), RSub(@, Rat(1, 2)))
              ELSE @,
          !.hintFrequency =
              IF affectiveState.confidence < 4 \/ Len(m.errorPatterns) > 10
              THEN RMin(R(1), RAdd(@, Rat(1, 10)))
              ELSE IF affectiveState.confidence > 7
              THEN RMax(R(0), RSub(@, Rat(1, 10)))
              ELSE @,
          !.taskPacing =
              IF RLt(R(5000), meanResponseTime)
              THEN RMax(Rat(1, 2), RSub(@, Rat(1, 10)))
              ELSE IF RLt(meanResponseTime, R(2000))
              THEN RMin(R(2), RAdd(@, Rat(1, 10)))
              ELSE @,
          !.feedbackTone =
              IF affectiveState.anxiety > 60 \/ affectiveState.frustration > 60
              THEN "encouraging"
              ELSE IF affectiveState.confidence > 7
                      /\ affectiveState.engagement > 70
              THEN "directive"
              ELSE "neutral"]

EstimateCognitiveLoad(m) ==
    LET rtVariance == m.responseMetrics.responseTimeVariance
        hesitation == m.responseMetrics.hesitationCount
        errors == Len(m.errorPatterns)
        loadScore ==
            RMin(R(100),
                 RAdd(RMul(RMul(rtVariance, Rat(1, 100)), R(30)),
                      R(hesitation * 10 + errors * 5)))
    IN  Round(loadScore)

\* new Date().toISOString().split('T')[0], as the number of the UTC day
Today(t) == t \div MsPerDay

RecordSession(m, data, t) ==
    LET session ==
            [ sessionId |-> <<"session-", t>>,
              timestamp |-> t,
              duration |-> 600000,
              tasksCompleted |-> data.tasksCompleted,
              accuracy |-> data.accuracy,
              cognitiveLoad |-> EstimateCognitiveLoad(m),
              completionRate |-> RMul(Rat(data.tasksCompleted, 10), R(100)),
              reflectionResponses |-> data.reflections ]
        pushed == Append(m.sessions, session)
        lastDate == m.lastSessionDate
        daysDiff == Today(t) - lastDate.value
    IN  [m EXCEPT
          !.sessions = IF Len(pushed) > 30 THEN Tail(pushed) ELSE pushed,
          !.totalSessions = @ + 1,
          !.consecutiveDays =
              IF lastDate # NoResult
              THEN IF daysDiff = 1 THEN @ + 1
                   ELSE IF daysDiff > 1 THEN 1 ELSE @
              ELSE 1,
          !.lastSessionDate = [value |-> Today(t)]]

\* updateFromSession(sessionData) at time t, as a function of the model before
\* the call
UpdatedFromSession(m, sessionData, t) ==
    LET m1 == UpdateSkillProfile(m, sessionData.accuracy)
        m2 == UpdateResponseMetrics(m1, sessionData.responseTimes)
        m3 == UpdateErrorPatterns(m2, sessionData.errorTypes, t)
        m4 == UpdateMouseBehavior(m3, sessionData.mouseData)
        m5 == UpdateCognitiveMetrics(m4, sessionData.cognitiveScores)
        m6 == UpdateAffectiveState(m5, sessionData.affectiveInputs)
        m7 == AdaptParameters(m6)
        m8 == RecordSession(m7, [accuracy |-> sessionData.accuracy,
                                 tasksCompleted |-> sessionData.tasksCompleted,
                                 reflections |-> sessionData.reflections],
                           t)
    IN  [m8 EXCEPT !.lastUpdated = t]

LearnerInit == learner = DefaultLearnerModel(now)

UpdateFromSession(sessionData) ==
    /\ learner' = UpdatedFromSession(learner, sessionData, now)
    /\ UNCHANGED <<now, trackerVars, skillVars, gameVars, attentionVars,
                   collectorVars, breakVars, audioVars, detectorVars>>


(***************************************************************************)
(* BreakTimer: src/lib/assistiveFeatures.ts                                *)
(***************************************************************************)
MsPerMinute == 60 * 1000

\* defaultAssistiveConfig, the fields BreakTimer reads
DefaultBreakConfig ==
    [structuredBreaks |-> FALSE, breakFrequency |-> 25, breakDuration |-> 5]
\* new BreakTimer(config): nothing is scheduled yet
BreakTimerNew(config) ==
    /\ breakConfig = config
    /\ workStartTime = 0
    /\ breakCallbacks = <<>>
    /\ timerInterval = NoResult
    /\ intervals = {}
    /\ timeouts = {}
    /\ nextHandle = 1
    /\ notifications = <<>>
BreakTimerInit == BreakTimerNew(DefaultBreakConfig)

\* this.breakCallbacks.forEach(cb => cb(breakType))
Notify(log, breakType) ==
    log \o [i \in 1..Len(breakCallbacks) |->
               [callback |-> breakCallbacks[i], breakType |-> breakType,
                at |-> now]]

\* start(onBreakNeeded)
BreakTimerStart(onBreakNeeded) ==
    /\ IF ~breakConfig.structuredBreaks
       THEN UNCHANGED <<workStartTime, breakCallbacks, timerInterval,
                        intervals, nextHandle>>
       ELSE /\ breakCallbacks' = Append(breakCallbacks, onBreakNeeded)
            /\ workStartTime' = now
            /\ timerInterval' = [value |-> nextHandle]
            /\ intervals' = intervals \cup
                   {[handle |-> nextHandle, due |-> now + MsPerMinute]}
            /\ nextHandle' = nextHandle + 1
    /\ UNCHANGED <<breakConfig, timeouts, notifications, learnerVars, now,
                   trackerVars, skillVars, gameVars, attentionVars,
                   collectorVars, audioVars, detectorVars>>

\* The callback of setInterval(..., 60000) runs; triggerBreak() when due.
IntervalFires(fired) ==
    /\ fired \in intervals
    /\ fired.due <= now
    /\ intervals' = (intervals \ {fired})
                        \cup {[fired EXCEPT !.due = @ + MsPerMinute]}
    /\ IF now - workStartTime >= breakConfig.breakFrequency * MsPerMinute
       THEN /\ notifications' = Notify(notifications, "break")
            /\ timeouts' = timeouts \cup
                   {[handle |-> nextHandle,
                     due |-> now + breakConfig.breakDuration * MsPerMinute]}
            /\ nextHandle' = nextHandle + 1
       ELSE UNCHANGED <<notifications, timeouts, nextHandle>>
    /\ UNCHANGED <<breakConfig, workStartTime, breakCallbacks, timerInterval,
                   learnerVars, now, trackerVars, skillVars, gameVars,
                   attentionVars, collectorVars, audioVars, detectorVars>>

\* The callback of triggerBreak's setTimeout runs: resumeWork()
TimeoutFires(fired) ==
    /\ fired \in timeouts
    /\ fired.due <= now
    /\ timeouts' = timeouts \ {fired}
    /\ workStartTime' = now
    /\ notifications' = Notify(notifications, "work")
    /\ UNCHANGED <<breakConfig, breakCallbacks, timerInterval, intervals,
                   nextHandle, learnerVars, now, trackerVars, skillVars,
                   gameVars, attentionVars, collectorVars, audioVars, detectorVars>>

\* stop()
BreakTimerStop ==
    /\ IF timerInterval # NoResult
       THEN /\ intervals' =
                   {t \in intervals : [value |-> t.handle] # timerInterval}
            /\ timerInterval' = NoResult
       ELSE UNCHANGED <<intervals, timerInterval>>
    /\ UNCHANGED <<breakConfig, workStartTime, breakCallbacks, timeouts,
                   nextHandle, notifications, learnerVars, now, trackerVars,
                   skillVars, gameVars, attentionVars, collectorVars, audioVars, detectorVars>>


(***************************************************************************)
(* AudioAnalyzer: src/lib/audioAnalyzer.ts                                 *)
(***************************************************************************)
SPEECH_THRESHOLD == Rat(1, 100)
MIN_PAUSE_DURATION == 300
\* frames the engine's call stack holds before it throws a RangeError
MaxCallDepth == 4

AudioInit ==
    /\ analyzer = [features |-> <<>>, pitchHistory |-> <<>>,
                   energyHistory |-> <<>>, pauses |-> <<>>,
                   lastSpeechTime |-> 0, currentPauseStart |-> NoResult,
                   firstSpeechTime |-> NoResult,
                   questionStartTime |-> NoResult]
    /\ callStack = <<>>
    /\ speechMetrics = NoResult

\* push, then shift() when more than 100 are held
Push100(history, x) ==
    LET pushed == Append(history, x)
    IN  IF Len(pushed) > 100 THEN Tail(pushed) ELSE pushed

DetectSpeechPause(a, energy, timestamp) ==
    IF RLt(SPEECH_THRESHOLD, energy)
    THEN LET start == a.currentPauseStart
             pauseDuration == timestamp - start.value
         IN  [a EXCEPT
               !.firstSpeechTime =
                   IF @ = NoResult THEN [value |-> timestamp] ELSE @,
               !.pauses =
                   IF start # NoResult /\ pauseDuration >= MIN_PAUSE_DURATION
                   THEN Append(@, [start |-> start.value, end |-> timestamp,
                                   duration |-> pauseDuration])
                   ELSE @,
               !.currentPauseStart = NoResult,
               !.lastSpeechTime = timestamp]
    ELSE IF a.lastSpeechTime > 0 /\ a.currentPauseStart = NoResult
         THEN [a EXCEPT !.currentPauseStart = [value |-> timestamp]]
         ELSE a

\* The Meyda callback: processFeatures({rms, spectralCentroid, ...})
ProcessFeatures(rms, spectralCentroid) ==
    LET pitch == IF spectralCentroid > 0 THEN spectralCentroid ELSE 0
        feature == [rms |-> rms, pitch |-> pitch, timestamp |-> now]
        tracked ==
            [analyzer EXCEPT
               !.features = Push100(@, feature),
               !.pitchHistory = IF pitch > 0 THEN Push100(@, pitch) ELSE @,
               !.energyHistory = Push100(@, rms)]
    IN  /\ analyzer' = DetectSpeechPause(tracked, rms, now)
        /\ UNCHANGED <<callStack, speechMetrics, learnerVars, breakVars, detectorVars, now,
                       trackerVars, skillVars, gameVars, attentionVars,
                       collectorVars>>

StartQuestion ==
    /\ analyzer' = [analyzer EXCEPT !.questionStartTime = [value |-> now],
                                    !.firstSpeechTime = NoResult]
    /\ UNCHANGED <<callStack, speechMetrics, learnerVars, breakVars, detectorVars, now,
                   trackerVars, skillVars, gameVars, attentionVars,
                   collectorVars>>

\* calculateVariance(values), values a non-empty array of rationals
CalculateVariance(values) ==
    LET n == Len(values)
        SquaredDiffs(mean) == [i \in 1..n |-> LET d == RSub(values[i], mean)
                                              IN  RMul(d, d)]
    IN  CHOOSE variance \in
            {RMul(sum, Rat(1, n)) :
                sum \in {RSum(SquaredDiffs(mean)) :
                            mean \in {RMul(total, Rat(1, n)) :
                                         total \in {RSum(values)}}}} : TRUE

CalculateConfidenceScore(a) ==
    IF Len(a.pitchHistory) = 0 THEN 0
    ELSE
        LET pitches == [i \in 1..Len(a.pitchHistory) |-> R(a.pitchHistory[i])]
            pitchStability ==
                RSub(R(100), RMin(R(100), RMul(CalculateVariance(pitches),
                                               Rat(1, 100))))
            energyStability ==
                RSub(R(100), RMin(R(100),
                                  RMul(CalculateVariance(a.energyHistory),
                                       R(100))))
            confidenceScore ==
                RAdd(RMul(pitchStability, Rat(1, 2)),
                     RMul(energyStability, Rat(1, 2)))
        IN  Round(RMin(R(100), RMax(R(0), confidenceScore)))

\* A call of one more function: a new frame, or the engine's RangeError, which
\* nothing on the stack catches.
PushFrame(frame) ==
    IF Len(callStack) < MaxCallDepth
    THEN callStack' = Append(callStack, frame) /\ UNCHANGED speechMetrics
    ELSE /\ callStack' = <<>>
         /\ speechMetrics' = [error |-> "RangeError"]

\* The frame of getSpeechMetrics() when it reaches its call of
\* calculateEngagementScore(): confidenceScore is already computed.
SpeechMetricsFrame ==
    [fn |-> "getSpeechMetrics",
     confidenceScore |-> CalculateConfidenceScore(analyzer)]

\* getSpeechMetrics() is called from outside
GetSpeechMetrics ==
    /\ callStack = <<>>
    /\ callStack' = <<SpeechMetricsFrame>>
    /\ speechMetrics' = NoResult
    /\ UNCHANGED <<analyzer, learnerVars, breakVars, detectorVars, now, trackerVars,
                   skillVars, gameVars, attentionVars, collectorVars>>

\* getSpeechMetrics() calls this.calculateEngagementScore()
CalculateEngagementScore ==
    /\ callStack # <<>>
    /\ callStack[Len(callStack)].fn = "getSpeechMetrics"
    /\ PushFrame([fn |-> "calculateEngagementScore"])
    /\ UNCHANGED <<analyzer, learnerVars, breakVars, detectorVars, now, trackerVars,
                   skillVars, gameVars, attentionVars, collectorVars>>

\* calculateEngagementScore() calls this.getSpeechMetrics(), whatever the
\* histories hold; neither function returns before its callee has returned.
ReenterSpeechMetrics ==
    /\ callStack # <<>>
    /\ callStack[Len(callStack)].fn = "calculateEngagementScore"
    /\ PushFrame(SpeechMetricsFrame)
    /\ UNCHANGED <<analyzer, learnerVars, breakVars, detectorVars, now, trackerVars,
                   skillVars, gameVars, attentionVars, collectorVars>>


(***************************************************************************)
(* EmotionGestureDetector: src/lib/audioAnalyzer.ts                        *)
(***************************************************************************)
DETECTION_INTERVAL == 1000
MAX_HISTORY == 60

NewDetector ==
    [emotionHistory |-> <<>>, gestureHistory |-> <<>>,
     lastHandPositions |-> <<>>, fidgetingDetectionWindow |-> <<>>]

DetectorInit == detector = NewDetector

\* detectEmotions() with the outcome of face-api's detectSingleFace:
\* NoResult when no face is found. valence, arousal, frustration, confusion
\* and engagement are functions of the expressions and are not stored here.
DetectedEmotions(d, detections, t) ==
    IF detections = NoResult THEN d
    ELSE LET emotionData == [emotions |-> detections.expressions,
                             timestamp |-> t]
             pushed == Append(d.emotionHistory, emotionData)
         IN  [d EXCEPT !.emotionHistory =
                 IF Len(pushed) > MAX_HISTORY THEN Tail(pushed) ELSE pushed]

\* The hand landmarks are the 21 points 0..20 of MediaPipe Hands.
Gesture(gestureType, confidence, duration, t) ==
    [gestureType |-> gestureType, confidence |-> confidence,
     duration |-> duration, timestamp |-> t]

DetectGesture(landmarks, t) ==
    LET thumbTip == landmarks[4]
        indexTip == landmarks[8]
        middleTip == landmarks[12]
        ringTip == landmarks[16]
        pinkyTip == landmarks[20]
        wrist == landmarks[0]
        Above(p, q) == RLt(p.y, q.y)
    IN  IF Above(thumbTip, wrist) /\ Above(wrist, indexTip)
           /\ Above(wrist, middleTip)
        THEN Gesture("thumbs_up", Rat(8, 10), 0, t)
        ELSE IF Above(wrist, thumbTip) /\ Above(indexTip, wrist)
                /\ Above(middleTip, wrist)
        THEN Gesture("thumbs_down", Rat(8, 10), 0, t)
        ELSE IF Above(thumbTip, wrist) /\ Above(indexTip, wrist)
                /\ Above(middleTip, wrist) /\ Above(ringTip, wrist)
                /\ Above(pinkyTip, wrist)
        THEN Gesture("hand_raise", Rat(9, 10), 0, t)
        ELSE IF Above(indexTip, wrist) /\ Above(wrist, middleTip)
                /\ Above(wrist, ringTip)
        THEN Gesture("pointing", Rat(7, 10), 0, t)
        ELSE NoResult

\* Math.sqrt on the squared distances that occur between two of the hands
\* of HandInputs, which are all squares of a multiple of 1/5
RSqrt(q) == CHOOSE r \in {Rat(n, 5) : n \in 0..10} : RMul(r, r) = q

CalculateHandMovement(prev, current) ==
    LET LandmarkShift(i) ==
            LET dx == RSub(current[i].x, prev[i].x)
                dy == RSub(current[i].y, prev[i].y)
                dz == RSub(current[i].z, prev[i].z)
            IN  RSqrt(RAdd(RAdd(RMul(dx, dx), RMul(dy, dy)), RMul(dz, dz)))
        n == Cardinality(DOMAIN prev \cap DOMAIN current)
    IN  CHOOSE movement \in
            {RMul(totalMovement, Rat(1, Cardinality(DOMAIN prev))) :
                totalMovement \in
                    {RSum([k \in 1..n |-> LandmarkShift(k - 1)])}} : TRUE

\* EmotionGestureDetector.calculateVariance
MovementVariance(values) ==
    IF Len(values) = 0 THEN R(0) ELSE CalculateVariance(values)

\* the fidgeting entry pushed for a movement variance above 0.05
WithFidgeting(d, window, movementVariance, t) ==
    [d EXCEPT
      !.fidgetingDetectionWindow = window,
      !.gestureHistory =
          IF RLt(Rat(5, 100), movementVariance)
          THEN Append(@, Gesture("fidgeting",
                                 RMin(R(1), RMul(movementVariance, R(10))),
                                 DETECTION_INTERVAL, t))
          ELSE @]

DetectFidgeting(d, landmarks, t) ==
    IF Len(d.lastHandPositions) < 5 THEN d
    ELSE
        LET prevLandmarks == d.lastHandPositions[Len(d.lastHandPositions)]
            Window(movement) ==
                LET pushed == Append(d.fidgetingDetectionWindow, movement)
                IN  IF Len(pushed) > 20 THEN Tail(pushed) ELSE pushed
        IN  CHOOSE fidgeted \in
                {WithFidgeting(d, window, movementVariance, t) :
                    <<window, movementVariance>> \in
                        {<<w, MovementVariance(w)>> :
                            w \in {Window(CalculateHandMovement(prevLandmarks,
                                                               landmarks))}}} :
                TRUE

\* the recognised gesture, if any, pushed and capped
WithGesture(d, gesture) ==
    LET pushed == Append(d.gestureHistory, gesture)
    IN  IF gesture = NoResult THEN d
        ELSE [d EXCEPT !.gestureHistory =
                IF Len(pushed) > MAX_HISTORY THEN Tail(pushed) ELSE pushed]

WithHand(d, landmarks) ==
    LET hands == Append(d.lastHandPositions, landmarks)
    IN  [d EXCEPT !.lastHandPositions =
            IF Len(hands) > 10 THEN Tail(hands) ELSE hands]

\* processHandResults(results); results is results.multiHandLandmarks, the
\* sequence of the hands found in the frame
ProcessedHandResults(d, results, t) ==
    IF Len(results) = 0 THEN d
    ELSE
        LET landmarks == results[1]
        IN  CHOOSE processed \in
                {WithHand(fidgeted, landmarks) :
                    fidgeted \in
                        {DetectFidgeting(withGesture, landmarks, t) :
                            withGesture \in
                                {WithGesture(d, DetectGesture(landmarks, t))}}} :
                TRUE

\* The setInterval callback of startDetection(); Date.now() is the time the
\* callback runs at, now'.
DetectEmotions(detections) ==
    /\ detector' = DetectedEmotions(detector, detections, now')
    /\ UNCHANGED <<trackerVars, skillVars, gameVars, attentionVars,
                   collectorVars, learnerVars, breakVars, audioVars>>

\* The onResults callback of MediaPipe Hands, run at time now'
ProcessHandResults(results) ==
    /\ detector' = ProcessedHandResults(detector, results, now')
    /\ UNCHANGED <<trackerVars, skillVars, gameVars, attentionVars,
                   collectorVars, learnerVars, breakVars, audioVars>>

DetectorReset ==
    /\ detector' = NewDetector
    /\ UNCHANGED <<now, trackerVars, skillVars, gameVars, attentionVars,
                   collectorVars, learnerVars, breakVars, audioVars>>

AssistInit == LearnerInit /\ BreakTimerInit /\ AudioInit /\ DetectorInit

(***************************************************************************)
(* Specifications                                                          *)
(***************************************************************************)
\* Bounds of the model.
\* Date.now() when the tracker is constructed
TrackerEpoch == 10000
\* clock horizon of a tracker run, in seconds
MaxSeconds == 2
\* cap on interactionCount
MaxInteractions == 1
\* the pointer rests once it has travelled this far
MaxMouseDistance == 10000
\* snapshots a long session takes beyond a full buffer
ExtraSnapshots == 1

\* clock horizon of an advanced tracker run
AdvancedSeconds == 1

AudioInputs == {-500, 100000}
FrustrationInputs == {-50, 100000}

MouseAllowed(p) == MouseMoved(p) => totalMouseDistance < MaxMouseDistance

\* ---- Spec: an EngagementTracker from its construction, the clock moving in
\* steps of one second.
Init ==
    /\ now = TrackerEpoch
    /\ tracker = "EngagementTracker"
    /\ TrackerInit
    /\ CollectorInit
    /\ AssistInit
    /\ SkillInit
    /\ AttentionInit

TickSecond ==
    now + 1000 <= TrackerEpoch + 1000 * MaxSeconds /\ Tick(1000)

Next ==
    \/ TickSecond
    \/ HandleFocus
    \/ HandleBlur
    \/ \E p \in MousePoints : MouseAllowed(p) /\ TrackMouse(p)
    \/ interactionCount < MaxInteractions /\ TrackInteraction
    \/ CallGetMetrics
    \/ Reset

Spec == Init /\ [][Next]_vars

\* ---- SpecAdvanced: an AdvancedEngagementTracker from its construction.
AdvancedMousePoints == {p \in MousePoints : p.x < 0}

InitAdvanced ==
    /\ now = TrackerEpoch
    /\ tracker = "AdvancedEngagementTracker"
    /\ TrackerInit
    /\ CollectorInit
    /\ AssistInit
    /\ SkillInit
    /\ AttentionInit

TickAdvanced ==
    now + 1000 <= TrackerEpoch + 1000 * AdvancedSeconds /\ Tick(1000)

NextAdvanced ==
    \/ TickAdvanced
    \/ AdvHandleFocus
    \/ AdvHandleBlur
    \/ \E started \in BOOLEAN : EnableEyeTracking(started)
    \/ DisableEyeTracking
    \/ \E e \in AudioInputs : UpdateAudioMetrics(e, 120, 300)
    \/ \E f \in FrustrationInputs : UpdateEmotionalState(R(f), R(40))
    \/ \E p \in AdvancedMousePoints, eye \in EyeReadings :
           MouseAllowed(p) /\ AdvTrackMouse(p, eye)
    \/ interactionCount < MaxInteractions /\ AdvTrackInteraction
    \/ \E eye \in EyeReadings : AdvCallGetMetrics(eye)
    \/ AdvReset

SpecAdvanced == InitAdvanced /\ [][NextAdvanced]_vars

\* ---- SpecLongSession: a tracker of either class in a session long enough
\* to fill the snapshot buffer.  While the buffer is not full the session is
\* regular (the pointer rests at the origin and a mouse event arrives every
\* SNAPSHOT_INTERVAL); with a full buffer every event may happen.
Origin == [x |-> 0, y |-> 0]
SessionMousePoints == {p \in MousePoints : p.x < 0} \cup {Origin}
WarmedUp == Len(snapshots) = MaxSnapshots

InitLongSession ==
    /\ now = TrackerEpoch
    /\ tracker \in {"EngagementTracker", "AdvancedEngagementTracker"}
    /\ TrackerInit
    /\ CollectorInit
    /\ AssistInit
    /\ SkillInit
    /\ AttentionInit

TickInterval ==
    /\ now + SNAPSHOT_INTERVAL <=
           TrackerEpoch + SNAPSHOT_INTERVAL * (MaxSnapshots + ExtraSnapshots)
    /\ WarmedUp \/ lastSnapshotTime = now
    /\ Tick(SNAPSHOT_INTERVAL)

NoEye == [attentionScore |-> 0, gaze |-> FALSE, fixationDuration |-> 0]

NextLongSession ==
    \/ TickInterval
    \/ \E p \in SessionMousePoints :
           (WarmedUp \/ p = Origin) /\ MouseAllowed(p) /\ TrackMouse(p)
    \/ \E p \in SessionMousePoints :
           (WarmedUp \/ p = Origin) /\ MouseAllowed(p) /\ AdvTrackMouse(p, NoEye)
    \/ WarmedUp /\ HandleFocus
    \/ WarmedUp /\ HandleBlur
    \/ WarmedUp /\ interactionCount < MaxInteractions /\ TrackInteraction
    \/ WarmedUp /\ Reset
    \/ WarmedUp /\ AdvHandleFocus
    \/ WarmedUp /\ AdvHandleBlur
    \/ WarmedUp /\ interactionCount < MaxInteractions /\ AdvTrackInteraction
    \/ WarmedUp /\ AdvReset

SpecLongSession == InitLongSession /\ [][NextLongSession]_vars

\* ---- SpecSkill: the skill estimator applied to a session's estimate.
InitSkill ==
    /\ now = TrackerEpoch
    /\ tracker = "EngagementTracker"
    /\ TrackerInit
    /\ CollectorInit
    /\ AssistInit
    /\ SkillStart
    /\ AttentionInit

SpecSkill == InitSkill /\ [][NextSkill]_vars

\* ---- SpecAttention: an AttentionCheckSystem in a session whose learner has
\* either not interacted yet or has clicked MIN_INTERACTION_EVENTS times, a
\* second apart; all further events arrive within the current millisecond.
\* cap on the attention checks administered
MaxChecks == 3
\* cap on the response times recorded
MaxResponses == 5
\* cap on the interactions recorded on top of the earlier ones
MaxClicks == 3

CheckInputs ==
    { [userAnswer |-> Str("Blue"), correctAnswer |-> Str("blue"),
       checkType |-> "simple"],
      [userAnswer |-> Number(3), correctAnswer |-> Str("4"),
       checkType |-> "catch-question"] }
SessionResponseTimes == {100, 1500}
EarlierInteractions ==
    [i \in 1..MIN_INTERACTION_EVENTS |->
        TrackerEpoch - 1000 * (MIN_INTERACTION_EVENTS - i)]

InitAttention ==
    /\ now = TrackerEpoch
    /\ tracker = "EngagementTracker"
    /\ TrackerInit
    /\ CollectorInit
    /\ AssistInit
    /\ SkillInit
    /\ checks = <<>>
    /\ responsePatterns = <<>>
    /\ interactionEvents \in {<<>>, EarlierInteractions}
    /\ quality = NoResult

NextAttention ==
    \/ \E c \in CheckInputs :
           /\ Len(checks) < MaxChecks
           /\ RecordCheck(c.userAnswer, c.correctAnswer, 1500, c.checkType)
    \/ \E rt \in SessionResponseTimes :
           Len(responsePatterns) < MaxResponses /\ RecordResponse(rt)
    \/ /\ Len(interactionEvents) < MIN_INTERACTION_EVENTS + MaxClicks
       /\ RecordInteraction
    \/ EvaluateQuality
    \/ AttentionReset

SpecAttention == InitAttention /\ [][NextAttention]_vars

\* ---- SpecResponses: the response-time log of an AttentionCheckSystem.
\* Regular times around half a second, and no time at all.
ResponseTimes == {0, 500, 505, 510, 515, 520}

InitResponses ==
    /\ now = TrackerEpoch
    /\ tracker = "EngagementTracker"
    /\ TrackerInit
    /\ CollectorInit
    /\ AssistInit
    /\ SkillInit
    /\ AttentionInit

NextResponses ==
    \/ \E rt \in ResponseTimes :
           Len(responsePatterns) < MaxResponses /\ RecordResponse(rt)
    \/ EvaluateQuality
    \/ AttentionReset

SpecResponses == InitResponses /\ [][NextResponses]_vars

\* ---- SpecInteractions: the interaction log of an AttentionCheckSystem,
\* the clock moving between the interactions.
\* Date.now() when the AttentionCheckSystem is constructed
ClickEpoch == 1000
\* clock horizon of an interaction run, in half seconds
MaxHalfSeconds == 2
\* cap on the interactions of an interaction run
MaxInteractionRun == 4
ClickGaps == {100, 200, 500}

InitInteractions ==
    /\ now = ClickEpoch
    /\ tracker = "EngagementTracker"
    /\ TrackerInit
    /\ CollectorInit
    /\ AssistInit
    /\ SkillInit
    /\ AttentionInit

NextInteractions ==
    \/ \E d \in ClickGaps :
           now + d <= ClickEpoch + 500 * MaxHalfSeconds /\ Tick(d)
    \/ Len(interactionEvents) < MaxInteractionRun /\ RecordInteraction
    \/ EvaluateQuality
    \/ AttentionReset

SpecInteractions == InitInteractions /\ [][NextInteractions]_vars


\* ---- SpecCollector: ResearchDataCollector instances handing out pseudonyms.
InitCollector ==
    /\ now = TrackerEpoch
    /\ tracker = "EngagementTracker"
    /\ TrackerInit
    /\ CollectorInit
    /\ AssistInit
    /\ SkillInit
    /\ AttentionInit

NextCollector ==
    \/ \E c \in Collectors, userId \in UserIds, salt \in Salts :
           GeneratePseudonymousId(c, userId, salt)
    \/ \E c \in Collectors : ClearAllData(c)

SpecCollector == InitCollector /\ [][NextCollector]_vars

\* ---- SpecGame: LearningGame answering questions and generating the next.
\* answers given in one session
MaxAnswers == 4
AnswerTimes == {2000, 12000}

InitGame ==
    /\ now = TrackerEpoch
    /\ tracker = "EngagementTracker"
    /\ TrackerInit
    /\ CollectorInit
    /\ AssistInit
    /\ SkillStart
    /\ AttentionInit

NextGame ==
    \/ GenerateNewQuestion
    \/ \E isCorrect \in BOOLEAN, timeSpent \in AnswerTimes :
           questionsAnswered < MaxAnswers /\ HandleAnswer(isCorrect, timeSpent)

SpecGame == InitGame /\ [][NextGame]_vars

\* ---- SpecSnapshots: a tracker of either class whose mouse events arrive
\* at times that are not multiples of SNAPSHOT_INTERVAL, with resets.
\* clock horizon of a snapshot run, in seconds
SnapshotSeconds == 6
TickSizes == {700, 1300}

InitSnapshots ==
    /\ now = TrackerEpoch
    /\ tracker \in {"EngagementTracker", "AdvancedEngagementTracker"}
    /\ TrackerInit
    /\ CollectorInit
    /\ AssistInit
    /\ SkillInit
    /\ AttentionInit

NextSnapshots ==
    \/ \E d \in TickSizes :
           now + d <= TrackerEpoch + 1000 * SnapshotSeconds /\ Tick(d)
    \/ TrackMouse(Origin)
    \/ AdvTrackMouse(Origin, NoEye)
    \/ Reset
    \/ AdvReset

SpecSnapshots == InitSnapshots /\ [][NextSnapshots]_vars

\* ---- SpecLogs: an AttentionCheckSystem whose logs are about to fill.  A
\* session either starts with empty logs or has already recorded 19 responses
\* (1001 .. 1019 ms), 49 interactions (one a second) and 50 passed checks.
\* entries a log may lose to eviction before the session stops feeding it
MaxEvictions == 2
\* entries recorded into a log that started empty
MaxFresh == 1
EarlierResponses == [i \in 1..(MaxResponsePatterns - 1) |-> 1000 + i]
EarlierClicks ==
    [i \in 1..(MaxInteractionEvents - 1) |->
        TrackerEpoch - 1000 * (MaxInteractionEvents - i)]
EarlierChecks ==
    [i \in 1..MaxInteractionEvents |->
        [passed |-> TRUE, responseTime |-> 1500,
         timestamp |-> TrackerEpoch - 1000 * (MaxInteractionEvents + 1 - i),
         checkType |-> "simple"]]

\* the log is short, or its oldest entry is still one of the first earlier ones
MayAppend(log, earlier) ==
    \/ Len(log) < MaxFresh
    \/ /\ Len(log) >= Len(earlier)
       /\ \E i \in 1..(MaxEvictions + 1) : Head(log) = earlier[i]

InitLogs ==
    /\ now = TrackerEpoch
    /\ tracker = "EngagementTracker"
    /\ TrackerInit
    /\ CollectorInit
    /\ AssistInit
    /\ SkillInit
    /\ checks \in {<<>>, EarlierChecks}
    /\ responsePatterns \in {<<>>, EarlierResponses}
    /\ interactionEvents \in {<<>>, EarlierClicks}
    /\ quality = NoResult

NextLogs ==
    \/ \E c \in CheckInputs :
           /\ \/ Len(checks) < MaxFresh
              \/ /\ Len(checks) >= Len(EarlierChecks)
                 /\ Len(checks) < Len(EarlierChecks) + MaxEvictions
           /\ RecordCheck(c.userAnswer, c.correctAnswer, 1500, c.checkType)
    \/ \E rt \in SessionResponseTimes :
           MayAppend(responsePatterns, EarlierResponses) /\ RecordResponse(rt)
    \/ MayAppend(interactionEvents, EarlierClicks) /\ RecordInteraction
    \/ AttentionReset

SpecLogs == InitLogs /\ [][NextLogs]_vars

\* ---- SpecLevels: an AdvancedEngagementTracker over a session of tens of
\* minutes, with and without eye tracking and audio, under the default and
\* under reconfigured thresholds.
\* clock horizon of a session, in steps of ten minutes
LevelTicks == 2
TenMinutes == 10 * 60000
LevelAudioInputs == {50, 100}
LevelFrustrationInputs == {Rat(796, 10)}
LevelEyeReadings == {e \in EyeReadings : e.attentionScore # 55}
ThresholdInputs == {[breakFrequency |-> 10], [minEngagementScore |-> 75]}

InitLevels ==
    /\ now = TrackerEpoch
    /\ tracker = "AdvancedEngagementTracker"
    /\ TrackerInit
    /\ CollectorInit
    /\ AssistInit
    /\ SkillInit
    /\ AttentionInit

NextLevels ==
    \/ now + TenMinutes <= TrackerEpoch + TenMinutes * LevelTicks
           /\ Tick(TenMinutes)
    \/ AdvHandleFocus
    \/ AdvHandleBlur
    \/ \E started \in BOOLEAN : EnableEyeTracking(started)
    \/ \E e \in LevelAudioInputs : UpdateAudioMetrics(e, 120, 300)
    \/ \E f \in LevelFrustrationInputs : UpdateEmotionalState(f, R(40))
    \/ \E partial \in ThresholdInputs : SetThresholds(partial)
    \/ \E eye \in LevelEyeReadings : AdvCallGetMetrics(eye)
    \/ \E eye \in LevelEyeReadings : ShouldTriggerBreak(eye)

SpecLevels == InitLevels /\ [][NextLevels]_vars

\* ---- SpecLearner: a LearnerModelEngine with the default baseline that has
\* been through a run of like sessions and now goes through at most one more
\* session a day.
\* the longest run of earlier sessions
MaxEarlierSessions == 30
\* the days that follow the run
MaxSessionDays == 2
SessionKinds == {"steady", "excelling", "struggling"}

\* The accuracy of a session that aims at target: the target while the skill
\* levels stay within MaxSkillDen, afterwards the learner's current level.
SessionAccuracy(m, target) ==
    LET level == UpdateSkillProfile(m, R(target)).skillProfile.numberSense
    IN  IF Den(level) <= MaxSkillDen THEN R(target) ELSE AvgSkill(m)

\* The sessionData of a session of each kind.
SessionData(kind, m) ==
    CASE kind = "steady" ->
            [ accuracy |-> SessionAccuracy(m, 50),
              responseTimes |-> <<>>,
              errorTypes |-> <<>>,
              mouseData |-> <<>>,
              cognitiveScores |-> <<>>,
              affectiveInputs |-> <<>>,
              tasksCompleted |-> 7,
              reflections |-> <<>> ]
      [] kind = "excelling" ->
            [ accuracy |-> SessionAccuracy(m, 100),
              responseTimes |-> <<1400, 1600>>,
              errorTypes |-> <<>>,
              mouseData |-> [clickAccuracy |-> 2],
              cognitiveScores |-> [attentionScore |-> 50],
              affectiveInputs |-> [confidence |-> 9, frustration |-> 10,
                                   engagement |-> 90],
              tasksCompleted |-> 10,
              reflections |-> <<"fun">> ]
      [] kind = "struggling" ->
            [ accuracy |-> SessionAccuracy(m, 0),
              responseTimes |-> <<21000, 1500, 1500, 21000, 1500, 1500,
                                  21000, 1500, 1500, 21000, 1500, 1500>>,
              errorTypes |-> <<[errorType |-> "procedural", frequency |-> 1,
                                lastOccurrence |-> 0, context |-> "carry"],
                               [errorType |-> "careless", frequency |-> 1,
                                lastOccurrence |-> 0,
                                context |-> m.totalSessions]>>,
              mouseData |-> [trajectoryEntropy |-> 3],
              cognitiveScores |-> <<>>,
              affectiveInputs |-> [confidence |-> 2, frustration |-> 80,
                                   anxiety |-> 70],
              tasksCompleted |-> 3,
              reflections |-> <<>> ]

\* The models in ms after n more sessions of one kind, all at time t (the run
\* is split in halves, which keeps the evaluation shallow).
RECURSIVE MoreSessions(_, _, _, _)
MoreSessions(kind, ms, n, t) ==
    IF n = 0 THEN ms
    ELSE IF n = 1
    THEN {UpdatedFromSession(m, SessionData(kind, m), t) : m \in ms}
    ELSE UNION {MoreSessions(kind, {half}, n - n \div 2, t) :
                   half \in MoreSessions(kind, ms, n \div 2, t)}

\* A new engine after n sessions of one kind.
AfterSessions(kind, n, t) == MoreSessions(kind, {DefaultLearnerModel(t)}, n, t)

InitLearner ==
    /\ now = TrackerEpoch
    /\ tracker = "EngagementTracker"
    /\ TrackerInit
    /\ CollectorInit
    /\ SkillInit
    /\ AttentionInit
    /\ BreakTimerInit
    /\ AudioInit
    /\ DetectorInit
    /\ learner \in UNION {AfterSessions(kind, n, now) :
                              kind \in SessionKinds, n \in 0..MaxEarlierSessions}

TickDay ==
    now + MsPerDay <= TrackerEpoch + MaxSessionDays * MsPerDay /\ Tick(MsPerDay)

NextLearner ==
    \/ TickDay
    \/ \E kind \in SessionKinds :
           /\ learner.lastUpdated < now
           /\ UpdateFromSession(SessionData(kind, learner))

SpecLearner == InitLearner /\ [][NextLearner]_vars

\* ---- SpecBreakTimer: a BreakTimer whose owner starts and stops it while the
\* clock moves a minute at a time; the browser runs each timer callback when
\* it is due, two callbacks due in the same millisecond in either order.
\* clock horizon of a break timer, in minutes
MaxMinutes == 5
\* cap on the start() calls
MaxStarts == 2
BreakConfigs ==
    [structuredBreaks : BOOLEAN, breakFrequency : {1, 2},
     breakDuration : {1, 2}]
Callbacks == {"onBreakNeeded", "onBreakNeeded2"}

NoTimerDue ==
    /\ \A t \in intervals : t.due > now
    /\ \A t \in timeouts : t.due > now

TickMinute ==
    /\ now + MsPerMinute <= TrackerEpoch + MaxMinutes * MsPerMinute
    /\ NoTimerDue
    /\ Tick(MsPerMinute)

InitBreakTimer ==
    /\ now = TrackerEpoch
    /\ tracker = "EngagementTracker"
    /\ TrackerInit
    /\ CollectorInit
    /\ LearnerInit
    /\ AudioInit
    /\ DetectorInit
    /\ SkillInit
    /\ AttentionInit
    /\ \E config \in BreakConfigs : BreakTimerNew(config)

NextBreakTimer ==
    \/ TickMinute
    \/ \E cb \in Callbacks :
           Len(breakCallbacks) < MaxStarts /\ timerInterval = NoResult
               /\ BreakTimerStart(cb)
    \/ \E fired \in intervals : IntervalFires(fired)
    \/ \E fired \in timeouts : TimeoutFires(fired)
    \/ BreakTimerStop

SpecBreakTimer == InitBreakTimer /\ [][NextBreakTimer]_vars

\* ---- SpecAudio: an AudioAnalyzer receiving feature frames 400 ms apart and
\* asked for its speech metrics between frames.
\* cap on the feature frames processed
MaxFeatures == 3
RmsInputs == {R(0), Rat(5, 100)}
CentroidInputs == {0, 200}

InitAudio ==
    /\ now = TrackerEpoch
    /\ tracker = "EngagementTracker"
    /\ TrackerInit
    /\ CollectorInit
    /\ LearnerInit
    /\ BreakTimerInit
    /\ AudioInit
    /\ DetectorInit
    /\ SkillInit
    /\ AttentionInit

NextAudio ==
    \/ \E rms \in RmsInputs, centroid \in CentroidInputs :
           /\ callStack = <<>>
           /\ Len(analyzer.features) < MaxFeatures
           /\ \A i \in 1..Len(analyzer.features) :
                  analyzer.features[i].timestamp < now
           /\ ProcessFeatures(rms, centroid)
    \/ /\ callStack = <<>>
       /\ analyzer.questionStartTime = NoResult
       /\ StartQuestion
    \/ /\ callStack = <<>>
       /\ analyzer.features # <<>>
       /\ analyzer.features[Len(analyzer.features)].timestamp = now
       /\ Len(analyzer.features) < MaxFeatures
       /\ Tick(400)
    \/ GetSpeechMetrics
    \/ CalculateEngagementScore
    \/ ReenterSpeechMetrics

SpecAudio == InitAudio /\ [][NextAudio]_vars

\* ---- SpecDetector: an EmotionGestureDetector that is new, or has already
\* seen about MaxEarlierFrames camera frames of one hand, and has seen no
\* face or MAX_HISTORY faces; it then receives more frames and faces.
DetectorEpoch == 100 * 1000
\* milliseconds between two camera frames
FrameMs == 1000 \div 30
MaxEarlierFrames == 70
MaxFreshFrames == 1

Fingers == {"thumb", "index", "middle", "ring", "pinky"}
FingerOf(i) ==
    CASE i \in 1..4 -> "thumb" [] i \in 5..8 -> "index"
      [] i \in 9..12 -> "middle" [] i \in 13..16 -> "ring"
      [] OTHER -> "pinky"
\* A hand at horizontal position x whose wrist is at mid height and whose
\* fingers are stretched up or folded down; raised is the set of fingers up.
Hand(raised, x) ==
    [i \in 0..20 |->
        [x |-> x, z |-> R(0),
         y |-> IF i = 0 THEN Rat(1, 2)
               ELSE IF FingerOf(i) \in raised THEN Rat(1, 10)
               ELSE Rat(9, 10)]]
ThumbsUp == {"thumb"}
ThumbsDown == {"index", "middle", "ring", "pinky"}
OpenHand == Fingers
Pointing == {"index"}
Fist == {}
Poses == {ThumbsUp, ThumbsDown, OpenHand, Pointing, Fist}
Left == Rat(1, 5)
Right == Rat(4, 5)
HandInputs == {Hand(raised, x) : raised \in Poses, x \in {Left, Right}}
FaceInputs ==
    {[expressions |-> [neutral |-> Rat(9, 10), happy |-> Rat(1, 10),
                       sad |-> R(0), angry |-> R(0), fearful |-> R(0),
                       disgusted |-> R(0), surprised |-> R(0)]],
     [expressions |-> [neutral |-> Rat(1, 10), happy |-> R(0),
                       sad |-> Rat(2, 10), angry |-> Rat(6, 10),
                       fearful |-> R(0), disgusted |-> Rat(1, 10),
                       surprised |-> R(0)]]}

\* The next frame of a hand that is held still, or that goes left, left,
\* right, right, ... between the frames.
FrameKinds == {"still thumbs up", "restless thumbs up", "restless fist"}
NextHand(kind, d) ==
    LET hands == d.lastHandPositions
        n == Len(hands)
        raised == IF kind = "restless fist" THEN Fist ELSE ThumbsUp
        Other(x) == IF x = Left THEN Right ELSE Left
        x == IF kind = "still thumbs up" \/ n = 0 THEN Left
             ELSE IF n = 1 THEN hands[1][0].x
             ELSE IF hands[n][0].x = hands[n - 1][0].x
                  THEN Other(hands[n][0].x)
                  ELSE hands[n][0].x
    IN  CHOOSE hand \in HandInputs : hand = Hand(raised, x)

\* The detectors after n more frames, the last of them at time t
RECURSIVE MoreFrames(_, _, _, _)
MoreFrames(kind, ds, n, t) ==
    IF n = 0 THEN ds
    ELSE IF n = 1
    THEN {ProcessedHandResults(d, <<NextHand(kind, d)>>, t) : d \in ds}
    ELSE UNION {MoreFrames(kind, {half}, n - n \div 2, t) :
                   half \in MoreFrames(kind, ds, n \div 2,
                                       t - (n - n \div 2) * FrameMs)}

\* The detector after n faces found one DETECTION_INTERVAL apart, the last
\* of them at time t
RECURSIVE MoreFaces(_, _, _)
MoreFaces(ds, n, t) ==
    IF n = 0 THEN ds
    ELSE IF n = 1
    THEN {DetectedEmotions(d, CHOOSE face \in FaceInputs :
                                  face.expressions.happy = R(0), t) :
             d \in ds}
    ELSE UNION {MoreFaces({half}, n - n \div 2, t) :
                   half \in MoreFaces(ds, n \div 2,
                                      t - (n - n \div 2) * DETECTION_INTERVAL)}

\* the earlier frames end at DetectorEpoch; the earlier faces end one
\* DETECTION_INTERVAL before the first fresh callback
InitDetector ==
    /\ now = DetectorEpoch
    /\ tracker = "EngagementTracker"
    /\ TrackerInit
    /\ CollectorInit
    /\ LearnerInit
    /\ BreakTimerInit
    /\ AudioInit
    /\ SkillInit
    /\ AttentionInit
    /\ \E kind \in FrameKinds,
          n \in {0} \cup (MaxEarlierFrames - 2)..MaxEarlierFrames,
          faces \in {0, MAX_HISTORY} :
           detector \in
               MoreFrames(kind,
                          MoreFaces({NewDetector}, faces,
                                    DetectorEpoch + FrameMs
                                        - DETECTION_INTERVAL),
                          n, DetectorEpoch)

\* One callback runs every FrameMs, MaxFreshFrames of them in all; a face
\* detection runs no earlier than DETECTION_INTERVAL after the last one.
NextDetector ==
    \/ /\ now < DetectorEpoch + MaxFreshFrames * FrameMs
       /\ now' = now + FrameMs
       /\ \E results \in {<<>>} \cup {<<hand>> : hand \in HandInputs} :
              ProcessHandResults(results)
    \/ /\ now < DetectorEpoch + MaxFreshFrames * FrameMs
       /\ now' = now + FrameMs
       /\ \A i \in 1..Len(detector.emotionHistory) :
              detector.emotionHistory[i].timestamp + DETECTION_INTERVAL
                  <= now'
       /\ \E detections \in {NoResult} \cup FaceInputs :
              DetectEmotions(detections)
    \/ /\ detector # NewDetector
       /\ DetectorReset

SpecDetector == InitDetector /\ [][NextDetector]_vars

\* ---- SpecQuestions: generateQuestionParameters applied to every skill
\* estimate with a whole mathFluency up to MaxFluency and to every window of
\* up to MaxWindow answers, as the first question of a mounted game.
MaxFluency == 100
MaxWindow == 3
Windows ==
    UNION {[1..n -> {[correct |-> c, timeSpent |-> 2000] : c \in BOOLEAN}] :
              n \in 0..MaxWindow}

InitQuestions ==
    /\ now = TrackerEpoch
    /\ tracker = "EngagementTracker"
    /\ TrackerInit
    /\ CollectorInit
    /\ AssistInit
    /\ AttentionInit
    /\ diagnosticResult = NoResult
    /\ \E fluency \in 0..MaxFluency :
           skillEstimate = [DefaultSkillEstimate EXCEPT
                               !.mathFluency = R(fluency)]
    /\ lastMetrics = NoResult
    /\ difficulty = NoResult
    /\ recentPerformance \in Windows
    /\ correctAnswers = CorrectCount(recentPerformance)
    /\ questionsAnswered = Len(recentPerformance)
    /\ selectedAnswer = NoResult
    /\ question = NoResult
    /\ timer = Closure

NextQuestions == GenerateNewQuestion

SpecQuestions == InitQuestions /\ [][NextQuestions]_vars

(***************************************************************************)
(* Properties of the skill estimator (checked under SpecSkill)             *)
(***************************************************************************)
RBetween(q, lo, hi) == RLe(lo, q) /\ RLe(q, hi)
RDist(p, q) == RAbs(RSub(p, q))

\* C4: every update moves mathFluency toward
\* performanceScore = (0.6*accuracy + 0.4*speedFactor)*100 and never past it:
\* the new mathFluency lies between the old one and performanceScore
\* (inclusive), it is strictly nearer unless it was already there, and
\* updating once more with the same input does not increase the distance.
C4_MovesTowardPerformanceScore ==
    [][\A m \in MetricsInputs :
          (lastMetrics' = m /\ UpdateSkill(m)) =>
              LET target == RMul(RAdd(RMul(Accuracy(m), Rat(6, 10)),
                                      RMul(SpeedFactor(m), Rat(4, 10))), R(100))
                  old == skillEstimate.mathFluency
                  new == skillEstimate'.mathFluency
                  again == UpdateSkillEstimate(skillEstimate', m).mathFluency
              IN  /\ RBetween(new, RMin(old, target), RMax(old, target))
                  /\ RLe(RDist(new, target), RDist(old, target))
                  /\ old # target => RLt(RDist(new, target), RDist(old, target))
                  /\ RLe(RDist(again, target), RDist(new, target))
                  /\ RBetween(again, RMin(new, target), RMax(new, target))]_vars

\* C4 witness: an update has been applied and has left mathFluency strictly
\* between its start value and the target of that update, with fractional
\* digits the start values do not have.
C4_Witness ==
    /\ lastMetrics # NoResult
    /\ RLt(skillEstimate.mathFluency, PerformanceScore(lastMetrics))
    /\ Den(skillEstimate.mathFluency) = 100

\* C5 as stated: with correctAnswers = 0 and totalAnswers = 0, updating twice
\* gives the same estimate as updating once.
C5_Idempotent ==
    \A m \in ZeroSignalInputs :
        UpdateSkillEstimate(UpdateSkillEstimate(skillEstimate, m), m)
            = UpdateSkillEstimate(skillEstimate, m)

\* C5 amended: with correctAnswers = 0 and totalAnswers = 0 the division is
\* guarded (accuracy is 0 and performanceScore is 40 * speedFactor, within
\* [0, 40]); the update is an exponential moving average and not idempotent:
\* a second update equals the first exactly when the first left mathFluency
\* at performanceScore and confidence at 1, and otherwise it moves
\* mathFluency by 0.3 of the remaining distance or raises confidence again.
C5_ZeroSignalUpdate ==
    \A m \in ZeroSignalInputs :
        LET once == UpdateSkillEstimate(skillEstimate, m)
            twice == UpdateSkillEstimate(once, m)
            target == RMul(R(40), SpeedFactor(m))
        IN  /\ Accuracy(m) = R(0)
            /\ PerformanceScore(m) = target
            /\ RBetween(target, R(0), R(40))
            /\ (twice = once) <=>
                   (once.mathFluency = target /\ once.confidence = R(1))
            /\ twice.mathFluency =
                   RAdd(once.mathFluency,
                        RMul(Rat(3, 10), RSub(target, once.mathFluency)))
            /\ twice.confidence = RMin(R(1), RAdd(once.confidence, Rat(1, 10)))
            /\ once.mathFluency =
                   RAdd(skillEstimate.mathFluency,
                        RMul(Rat(3, 10), RSub(target, skillEstimate.mathFluency)))

\* C5 witness: zero-signal updates have been applied until the estimate is a
\* fixed point of the update (the only case in which twice equals once).
C5_Witness ==
    /\ lastMetrics \in ZeroSignalInputs
    /\ skillEstimate.confidence = R(1)
    /\ UpdateSkillEstimate(skillEstimate, lastMetrics) = skillEstimate

\* C6: calculateOptimalDifficulty returns mathFluency * 1.1 clamped to
\* [10, 95], hence a value within [10, 95] whenever mathFluency is in [0, 100].
C6_DifficultyClamped ==
    difficulty # NoResult =>
        LET fluency == skillEstimate.mathFluency
            target == Rat(11 * Num(fluency), 10 * Den(fluency))
        IN  /\ difficulty.value =
                   IF RLt(target, R(10)) THEN R(10)
                   ELSE IF RLt(R(95), target) THEN R(95) ELSE target
            /\ RBetween(fluency, R(0), R(100)) =>
                   RBetween(difficulty.value, R(10), R(95))

\* C6 witness: the difficulty of an estimate within [0, 100] whose target
\* exceeds the upper clamp.
C6_Witness ==
    /\ difficulty # NoResult
    /\ RBetween(skillEstimate.mathFluency, R(0), R(100))
    /\ RLt(R(95), RMul(skillEstimate.mathFluency, Rat(11, 10)))
    /\ difficulty.value = R(95)


(***************************************************************************)
(* Properties of AttentionCheckSystem                                      *)
(***************************************************************************)
PassedCount == Cardinality({i \in DOMAIN checks : checks[i].passed})
FailedCount == Cardinality({i \in DOMAIN checks : ~checks[i].passed})

\* C7 (SpecAttention): whenever at least one check has been recorded and
\* fewer than 2 of them passed, evaluateSessionQuality() reports the exact
\* pass and fail counts, raises FAILED_ATTENTION_CHECKS and returns
\* isValidSession = false, whatever the numeric attentionScore is.
C7_FailedChecksInvalidate ==
    (quality # NoResult /\ Len(checks) >= 1 /\ PassedCount < 2) =>
        /\ quality.attentionChecksPassed = PassedCount
        /\ quality.attentionChecksFailed = FailedCount
        /\ quality.attentionChecksPassed + quality.attentionChecksFailed
               = Len(checks)
        /\ HasFlag(quality.qualityFlags, "FAILED_ATTENTION_CHECKS")
        /\ quality.isValidSession = FALSE

\* C7 witness: a session evaluated with one passed check out of one and no
\* other flag, so that the score alone (90) would pass the threshold.
C7_Witness ==
    /\ quality # NoResult
    /\ Len(checks) = 1
    /\ PassedCount = 1
    /\ RLe(R(60), quality.attentionScore)
    /\ quality.isValidSession = FALSE

\* C8 as stated: attentionScore = max(0, 100*passed/total - 10*flags), base
\* 0 without checks, and isValidSession exactly when that score is >= 60 and
\* no critical flag is raised.
C8_UnroundedScore ==
    quality # NoResult =>
        LET base == IF Len(checks) > 0
                    THEN Rat(100 * PassedCount, Len(checks)) ELSE R(0)
            score == RMax(R(0), RSub(base, R(10 * Len(quality.qualityFlags))))
        IN  /\ quality.attentionScore = score
            /\ quality.isValidSession <=>
                   /\ RLe(R(60), score)
                   /\ ~HasFlag(quality.qualityFlags, "FAILED_ATTENTION_CHECKS")
                   /\ ~HasFlag(quality.qualityFlags, "SUSPICIOUS_PATTERN")

\* C8 amended: attentionScore = max(0, round(100*passed/total - 10*flags)),
\* rounded to the nearest integer (base 0 without checks), and isValidSession
\* exactly when that rounded score is >= 60 and neither
\* FAILED_ATTENTION_CHECKS nor SUSPICIOUS_PATTERN is among the flags.
C8_RoundedScore ==
    quality # NoResult =>
        LET base == IF Len(checks) > 0
                    THEN Rat(100 * PassedCount, Len(checks)) ELSE R(0)
            raw == RSub(base, R(10 * Len(quality.qualityFlags)))
            score == quality.attentionScore
        IN  \* score is the integer nearest to raw (halves upwards), or 0 if
            \* that integer is negative
            /\ Den(score) = 1
            /\ Num(score) >= 0
            /\ RLt(raw, Rat(2 * Num(score) + 1, 2))
            /\ Num(score) > 0 => RLe(Rat(2 * Num(score) - 1, 2), raw)
            /\ quality.isValidSession <=>
                   /\ Num(score) >= 60
                   /\ ~HasFlag(quality.qualityFlags, "FAILED_ATTENTION_CHECKS")
                   /\ ~HasFlag(quality.qualityFlags, "SUSPICIOUS_PATTERN")

\* C8 witness: a session evaluated with 2 of 3 checks passed and a flag
\* raised, so that the score before rounding is no integer.
C8_Witness ==
    /\ quality # NoResult
    /\ Len(checks) = 3
    /\ PassedCount = 2
    /\ Len(quality.qualityFlags) = 1
    /\ quality.attentionScore = R(57)


RECURSIVE SumOfSquares(_)
SumOfSquares(s) ==
    IF s = <<>> THEN 0 ELSE Head(s) * Head(s) + SumOfSquares(Tail(s))

\* C9 (SpecResponses): SUSPICIOUS_PATTERN is raised exactly when at least 5
\* response times are retained and their coefficient of variation
\* (population standard deviation / mean) is below 0.1.  With n times of sum
\* S > 0 and sum of squares Q, CV^2 = (n*Q - S^2) / S^2, so CV < 0.1 is
\* 100 * (n*Q - S^2) < S^2; with S = 0 the quotient is undefined and not
\* below 0.1.  The log 500, 520, 510, 505, 515 is flagged, and no log of
\* fewer than 5 times is.
C9_SuspiciousPattern ==
    quality # NoResult =>
        LET n == Len(responsePatterns)
            S == SumSeq(responsePatterns)
            Q == SumOfSquares(responsePatterns)
            flagged == HasFlag(quality.qualityFlags, "SUSPICIOUS_PATTERN")
        IN  /\ flagged <=> (n >= 5 /\ S > 0 /\ 100 * (n * Q - S * S) < S * S)
            /\ responsePatterns = <<500, 520, 510, 505, 515>> => flagged
            /\ n < 5 => ~flagged

\* C9 witness: the session is evaluated after the five regular response
\* times of the example, and flagged.
C9_Witness ==
    /\ quality # NoResult
    /\ responsePatterns = <<500, 520, 510, 505, 515>>
    /\ HasFlag(quality.qualityFlags, "SUSPICIOUS_PATTERN")

\* C10 (SpecInteractions): RAPID_CLICKING is raised exactly when at least 3
\* interaction timestamps are retained and the last 3 span less than 500 ms;
\* three interactions 200 ms and 100 ms apart are flagged, and a burst
\* followed by slower interactions is not.
C10_RapidClicking ==
    quality # NoResult =>
        LET n == Len(interactionEvents)
            flagged == HasFlag(quality.qualityFlags, "RAPID_CLICKING")
        IN  /\ flagged <=>
                   (n >= 3 /\ interactionEvents[n] - interactionEvents[n - 2] < 500)
            /\ interactionEvents =
                   <<ClickEpoch, ClickEpoch + 200, ClickEpoch + 300>> => flagged
            /\ (n >= 4 /\ interactionEvents[n] - interactionEvents[n - 2] >= 500)
                   => ~flagged

\* C10 witness: a burst of three interactions within 300 ms, then a slower
\* one; the session is evaluated and the burst no longer counts.
C10_Witness ==
    /\ quality # NoResult
    /\ Len(interactionEvents) = 4
    /\ interactionEvents[3] - interactionEvents[1] = 300
    /\ interactionEvents[4] - interactionEvents[2] >= 500
    /\ ~HasFlag(quality.qualityFlags, "RAPID_CLICKING")


(***************************************************************************)
(* Properties of the engagement trackers                                   *)
(***************************************************************************)
InRange(score) == 0 <= score /\ score <= 100

\* C1 (SpecLongSession): the snapshot buffer of either tracker never holds
\* more than 30 entries and its timestamps increase from the oldest entry to
\* the newest; a snapshot appended to a full buffer (the 31st) drops the
\* oldest entry and keeps the others in place, and one appended to a buffer
\* that is not full drops nothing.
SnapshotAppended ==
    /\ snapshots' # <<>>
    /\ snapshots'[Len(snapshots')].timestamp = now
    /\ snapshots = <<>> \/ snapshots[Len(snapshots)].timestamp < now
C1_SnapshotBuffer ==
    /\ [](Len(snapshots) <= 30)
    /\ [](\A i \in 1..(Len(snapshots) - 1) :
              snapshots[i].timestamp < snapshots[i + 1].timestamp)
    /\ [][SnapshotAppended =>
              IF Len(snapshots) = 30
              THEN /\ Len(snapshots') = 30
                   /\ \A i \in 1..29 : snapshots'[i] = snapshots[i + 1]
              ELSE /\ Len(snapshots') = Len(snapshots) + 1
                   /\ \A i \in 1..Len(snapshots) : snapshots'[i] = snapshots[i]]_vars

\* C1 witness: the buffer is full and its oldest entry is no longer the
\* first snapshot of the session, which a 31st snapshot has pushed out.
C1_Witness ==
    /\ Len(snapshots) = 30
    /\ snapshots[1].timestamp = TrackerEpoch + SNAPSHOT_INTERVAL
    /\ snapshots[30].timestamp = TrackerEpoch + 30 * SNAPSHOT_INTERVAL

\* C2 (SpecAdvanced): every getMetrics() result of an
\* AdvancedEngagementTracker has attentionScore and engagementScore within
\* [0, 100], whatever was supplied through updateAudioMetrics and
\* updateEmotionalState and whatever the eye tracker reports.
C2_AdvancedScoresInRange ==
    metrics # NoResult =>
        InRange(metrics.attentionScore) /\ InRange(metrics.engagementScore)

\* C3 (Spec): every getMetrics() result of an EngagementTracker has
\* attentionScore and engagementScore within [0, 100], after any sequence of
\* mouse events, interactions, focus and blur events and resets.
C3_ScoresInRange ==
    metrics # NoResult =>
        InRange(metrics.attentionScore) /\ InRange(metrics.engagementScore)
            /\ tracker = "EngagementTracker"

\* C3 witness: getMetrics() is read after the pointer has jumped to a far
\* negative position, an interaction and a blur: the mouse and interaction
\* terms are both at their caps and the focus term is not.
C3_Witness ==
    /\ metrics # NoResult
    /\ metrics.mouseMovement >= 20000
    /\ lastMousePos.x < 0
    /\ metrics.interactionCount >= 1
    /\ metrics.attentionScore < 100
    /\ metrics.engagementScore > 60

(***************************************************************************)
(* Properties of ResearchDataCollector (checked under SpecCollector)       *)
(***************************************************************************)
\* Without a clearAllData in between, an instance keeps the one entry it made
\* for a user id, and every call returns the pseudo-id of that entry.
C11_Memoized ==
    [][\A c \in Collectors, userId \in UserIds :
          (Has(c, userId) /\ pseudonymMap'[c] # {}) =>
              /\ {e \in pseudonymMap'[c] : e.userId = userId}
                     = {Get(c, userId)}
              /\ (pseudoId' # pseudoId /\ pseudoId'.collector = c
                      /\ pseudoId'.userId = userId)
                 => pseudoId'.value = Get(c, userId).pseudoId]_vars

\* Two instances that drew different salts for the same user id hold
\* different pseudo-ids for it.
FreshCollectorDiffers ==
    \A c1 \in Collectors, c2 \in Collectors, userId \in UserIds :
        (c1 # c2 /\ Has(c1, userId) /\ Has(c2, userId)
            /\ Get(c1, userId).salt # Get(c2, userId).salt)
        => Get(c1, userId).pseudoId # Get(c2, userId).pseudoId

\* C11: generatePseudonymousId(userId), called any number of times on one
\* ResearchDataCollector with no clearAllData in between, always returns the
\* identical pseudo-id, and a fresh instance that draws a different salt
\* returns a different pseudo-id for the same userId.
C11_PseudonymousId == C11_Memoized /\ []FreshCollectorDiffers

(***************************************************************************)
(* Properties of question generation (checked under SpecGame)              *)
(***************************************************************************)
SampleDiagnostic ==
    [workingMemory |-> 80, attention |-> 70, processingSpeed |-> 60,
     executiveFunction |-> 75]

\* C12: initializeFromDiagnostic returns mathFluency = 0.3*workingMemory +
\* 0.2*attention + 0.3*processingSpeed + 0.2*executiveFunction, confidence 0.5
\* and the four sub-scores unchanged; for the diagnostic {80, 70, 60, 75}
\* mathFluency is 71 and the first generateQuestionParameters call (empty
\* performance window) yields question type 'sequencing'.
C12_SeededFromDiagnostic ==
    (diagnosticResult # NoResult /\ questionsAnswered = 0) =>
        /\ skillEstimate.mathFluency =
               Rat(3 * diagnosticResult.workingMemory
                       + 2 * diagnosticResult.attention
                       + 3 * diagnosticResult.processingSpeed
                       + 2 * diagnosticResult.executiveFunction, 10)
        /\ skillEstimate.confidence = Rat(1, 2)
        /\ skillEstimate.workingMemory = diagnosticResult.workingMemory
        /\ skillEstimate.attention = diagnosticResult.attention
        /\ skillEstimate.processingSpeed = diagnosticResult.processingSpeed
        /\ skillEstimate.executiveFunction = diagnosticResult.executiveFunction
        /\ diagnosticResult = SampleDiagnostic =>
               /\ skillEstimate.mathFluency = R(71)
               /\ question # NoResult => question.questionType = "sequencing"

\* C12 witness: the first question of a session seeded from {80, 70, 60, 75}
\* has been generated.
C12_Witness ==
    /\ diagnosticResult = SampleDiagnostic
    /\ questionsAnswered = 0
    /\ recentPerformance = <<>>
    /\ question # NoResult
    /\ question.questionType = "sequencing"

\* C13: generateQuestionParameters starts from the ZPD target, adds 5 when
\* the accuracy over the supplied window is above 80%, subtracts 5 when it is
\* below 50% and leaves it unchanged otherwise (an empty window included);
\* the question type follows the breakpoints <30, <50, <70, otherwise; the
\* returned difficulty is within [10, 95] and the returned timeLimit within
\* [5000, 30000].  Checked at every generateNewQuestion() call, against the
\* skill estimate and window that call was given.
C13_QuestionParameters ==
    [][(timer # NoResult /\ timer' = NoResult) =>
          LET n == Len(timer.recentPerformance)
              k == CorrectCount(timer.recentPerformance)
              zpd == CalculateOptimalDifficulty(timer.skillEstimate)
              adjusted ==
                  IF n > 0 /\ 10 * k > 8 * n THEN RAdd(zpd, R(5))
                  ELSE IF n > 0 /\ 2 * k < n THEN RSub(zpd, R(5))
                  ELSE zpd
          IN  /\ question'.questionType =
                     IF RLt(adjusted, R(30)) THEN "number-recognition"
                     ELSE IF RLt(adjusted, R(50)) THEN "addition"
                     ELSE IF RLt(adjusted, R(70)) THEN "subtraction"
                     ELSE "sequencing"
              /\ RLe(R(10), question'.difficulty)
              /\ RLe(question'.difficulty, R(95))
              /\ RLe(R(5000), question'.timeLimit)
              /\ RLe(question'.timeLimit, R(30000))]_vars

\* C13 witness: from the default estimate, two correct answers in 2 s each
\* (mathFluency 71.42, ZPD target 78.562) and a third answer; the question
\* generated next was given the window of the first two answers, accuracy
\* 100%, and has difficulty 78.562 + 5.
C13_Witness ==
    /\ diagnosticResult = NoResult
    /\ questionsAnswered = 3
    /\ timer = NoResult
    /\ question.difficulty = Rat(83562, 1000)
    /\ question.questionType = "sequencing"

\* C14: in every reachable state of EngagementTracker and
\* AdvancedEngagementTracker any two snapshots held in the buffer have
\* timestamps at least 2000 ms apart, whenever trackMouse is called, before
\* and after reset.
C14_SnapshotSpacing ==
    \A i \in 1..Len(snapshots), j \in 1..Len(snapshots) :
        i < j => snapshots[j].timestamp - snapshots[i].timestamp >= 2000

\* C14 witness: a tracker that was reset holds two snapshots taken after the
\* reset, exactly one interval apart.
C14_Witness ==
    /\ startTime > TrackerEpoch
    /\ Len(snapshots) = 2
    /\ snapshots[1].timestamp = startTime + 700
    /\ snapshots[2].timestamp = snapshots[1].timestamp + 2000

(***************************************************************************)
(* Properties of the AttentionCheckSystem logs (checked under SpecLogs)    *)
(***************************************************************************)
\* new is old with one entry appended, cut from the front to at most cap.
AppendedWithin(old, new, cap) ==
    LET dropped == Len(old) + 1 - Len(new)
    IN  /\ Len(new) = Min(Len(old) + 1, cap)
        /\ \A i \in 1..(Len(new) - 1) : new[i] = old[i + dropped]

\* C15: after any sequence of recordResponse and recordInteraction calls the
\* response log holds at most 20 entries and the interaction log at most 50,
\* each the most recent entries in arrival order (the oldest is evicted
\* first); the check log grows by exactly one entry per recordCheck call and
\* loses nothing before reset.
C15_LogCaps ==
    /\ [](Len(responsePatterns) <= 20 /\ Len(interactionEvents) <= 50)
    /\ [][/\ (responsePatterns' # responsePatterns /\ responsePatterns' # <<>>)
              => AppendedWithin(responsePatterns, responsePatterns', 20)
          /\ (interactionEvents' # interactionEvents /\ interactionEvents' # <<>>)
              => /\ AppendedWithin(interactionEvents, interactionEvents', 50)
                 /\ interactionEvents'[Len(interactionEvents')] = now
          /\ (checks' # checks /\ checks' # <<>>)
              => /\ Len(checks') = Len(checks) + 1
                 /\ \A i \in 1..Len(checks) : checks'[i] = checks[i]]_vars

\* C15 witness: both capped logs are full and have lost their two oldest
\* entries, and the check log has outgrown both caps.
C15_Witness ==
    /\ Len(responsePatterns) = 20
    /\ responsePatterns[1] = 1003
    /\ Len(interactionEvents) = 50
    /\ interactionEvents[1] = TrackerEpoch - 1000 * 47
    /\ interactionEvents[50] = TrackerEpoch
    /\ Len(checks) = 52

(***************************************************************************)
(* Properties of the multimodal fusion (checked under SpecLevels)          *)
(***************************************************************************)
\* The scores getMetrics() works with before it rounds them, recomputed for
\* the state its last result was read in.
AttentionOf(m) ==
    IF eyeTrackingEnabled
    THEN RAdd(RMul(BaseFocusScore, Rat(3, 10)),
              RMul(R(m.eyeTrackingScore), Rat(7, 10)))
    ELSE BaseFocusScore
EngagementOf(m) == AdvEngagementRaw(AttentionOf(m), totalMouseDistance)

C17_BreakExactlyWhen ==
    breakDue # NoResult =>
        breakDue.value =
            (\/ RLe(R(thresholds.breakFrequency), Rat(now - startTime, 60000))
             \/ breakDue.metrics.engagementLevel = "critical"
             \/ RLe(R(thresholds.criticalFrustrationLevel), emotion.frustration))

\* C17, amended: the frustration compared is the one getMetrics() reports,
\* rounded to the nearest integer; and the call changes no counter and no
\* snapshot.
C17_BreakOnReportedFrustration ==
    /\ [](breakDue # NoResult =>
             breakDue.value =
                 (\/ RLe(R(thresholds.breakFrequency),
                         Rat(now - startTime, 60000))
                  \/ breakDue.metrics.engagementLevel = "critical"
                  \/ Round(emotion.frustration)
                         >= thresholds.criticalFrustrationLevel))
    /\ [][(breakDue' # NoResult /\ breakDue' # breakDue) =>
              UNCHANGED <<startTime, lastMousePos, totalMouseDistance,
                          interactionCount, isFocused, focusStartTime,
                          totalFocusTime, snapshots, lastSnapshotTime,
                          audio, emotion, thresholds>>]_vars

\* C17 witness: a break is due although the session is younger than
\* breakFrequency, the level is not critical and frustration (79.6) is below
\* criticalFrustrationLevel (80): the reported frustration is 80.
C17_Witness ==
    /\ breakDue # NoResult
    /\ breakDue.value
    /\ RLt(Rat(now - startTime, 60000), R(thresholds.breakFrequency))
    /\ breakDue.metrics.engagementLevel = "low"
    /\ RLt(emotion.frustration, R(thresholds.criticalFrustrationLevel))
    /\ breakDue.metrics.frustrationLevel = 80

NoAudio == audio = [engagement |-> 0, speechRate |-> 0, latency |-> 0]

\* C18 as stated: with eye tracking unavailable and no audio metrics
\* supplied, the engagement score is re-weighted over the local signals (base
\* focus 0.4, interaction 0.2, mouse 0.1, together 0.7), so that the missing
\* modalities do not lower it.
C18_MissingModalityReweighted ==
    (metrics # NoResult /\ ~eyeTrackingEnabled /\ NoAudio) =>
        RLe(RMul(RAdd(RAdd(RMul(BaseFocusScore, Rat(4, 10)),
                           RMul(RMin(R(100), RMul(InteractionRate, R(10))),
                                Rat(2, 10))),
                      RMul(MouseActivity(totalMouseDistance), Rat(1, 10))),
                 Rat(10, 7)),
            EngagementOf(metrics))

\* C18, amended: without eye tracking the attention score is the base focus
\* score alone; without audio metrics the audio term is 0 and the other
\* weights stay as they are, so the engagement score is at most 80 when
\* frustration is not negative.
C18_FixedWeights ==
    metrics # NoResult =>
        /\ ~eyeTrackingEnabled =>
               /\ metrics.eyeTrackingScore = 0
               /\ metrics.attentionScore = Round(BaseFocusScore)
        /\ NoAudio =>
               /\ metrics.engagementScore =
                      Round(RMin(R(100),
                          RAdd(RAdd(RMul(AttentionOf(metrics), Rat(4, 10)),
                                    RMul(RMin(R(100),
                                              RMul(InteractionRate, R(10))),
                                         Rat(2, 10))),
                               RAdd(RMul(MouseActivity(totalMouseDistance),
                                         Rat(1, 10)),
                                    RMul(RSub(R(100), emotion.frustration),
                                         Rat(1, 10))))))
               /\ RLe(R(0), emotion.frustration) => metrics.engagementScore <= 80

\* C18 witness: eye tracking failed to start and no audio was supplied; a
\* learner focused for the whole session has attention 100 and engagement 50.
C18_Witness ==
    /\ metrics # NoResult
    /\ eyeTracker /\ ~eyeTrackingEnabled
    /\ NoAudio
    /\ metrics.attentionScore = 100
    /\ metrics.engagementScore = 50
    /\ metrics.engagementLevel = "low"

\* ---- Properties of the focus clock (EngagementTracker)

\* The focus time getMetrics would report never exceeds the active time.
FocusTimeWithinActiveTime == CurrentFocusTime <= now - startTime

\* Across a step that begins and ends with the window out of focus, the
\* focus time getMetrics would report does not grow (a reset may lower it).
FrozenWhileUnfocused ==
    (~windowFocused /\ ~windowFocused') => CurrentFocusTime' <= CurrentFocusTime

\* Across a step of the same session that begins and ends with the window in
\* focus, the focus time grows by exactly the time that passed.
CountedOnce ==
    (windowFocused /\ windowFocused' /\ startTime' = startTime)
        => CurrentFocusTime' - CurrentFocusTime = now' - now

C19_CountedOnce == [][CountedOnce]_vars

\* C19: for any sequence of focus, blur, visibilitychange, reset and
\* getMetrics events, duplicates included, the focusTime reported by
\* getMetrics does not increase while the window is unfocused, each focused
\* interval is counted once, and focusTime never exceeds activeTime.
C19_FocusTimeFrozen ==
    /\ []FocusTimeWithinActiveTime
    /\ [][FrozenWhileUnfocused /\ CountedOnce]_vars

\* ---- Properties of the estimate's confidence

\* C20: over any sequence of updateSkillEstimate calls the confidence never
\* decreases, grows by 0.1 per call until the cap, never exceeds 1.0, and
\* stays 1.0 once it has reached it.
C20_ConfidenceSaturates ==
    [][\A m \in MetricsInputs :
          (lastMetrics' = m /\ UpdateSkill(m)) =>
              LET old == skillEstimate.confidence
                  new == skillEstimate'.confidence
                  step == RAdd(old, Rat(1, 10))
              IN  /\ RLe(old, new)
                  /\ RLe(new, R(1))
                  /\ RLe(step, R(1)) => new = step
                  /\ old = R(1) => new = R(1)]_vars

\* C20 witness: a session that started from the default confidence 0.3 has
\* been updated until the confidence reached the cap.
C20_Witness ==
    /\ diagnosticResult = NoResult
    /\ lastMetrics # NoResult
    /\ skillEstimate.confidence = R(1)

\* ---- Properties of the estimator on out-of-range inputs

RWithin(q, low, high) == RLe(R(low), q) /\ RLe(q, R(high))

\* C21: out-of-range inputs are clamped: an update of an estimate whose
\* mathFluency is in [0,100] returns mathFluency in [0,100] and confidence in
\* [0,1], also when correctAnswers > totalAnswers, when a count is negative
\* and when averageResponseTime is negative or very large.
C21_UpdateStaysInRange ==
    [][\A m \in MetricsInputs :
          (lastMetrics' = m /\ UpdateSkill(m)
              /\ RWithin(skillEstimate.mathFluency, 0, 100)) =>
              /\ RWithin(skillEstimate'.mathFluency, 0, 100)
              /\ RWithin(skillEstimate'.confidence, 0, 1)]_vars

(***************************************************************************)
(* Properties of LearnerModelEngine (checked under SpecLearner)            *)
(***************************************************************************)
ParametersInBounds ==
    /\ RLe(R(1), learner.currentDifficulty)
    /\ RLe(learner.currentDifficulty, R(10))
    /\ RLe(R(0), learner.hintFrequency)
    /\ RLe(learner.hintFrequency, R(1))
    /\ RLe(Rat(1, 2), learner.taskPacing)
    /\ RLe(learner.taskPacing, R(2))
    /\ learner.feedbackTone \in {"encouraging", "directive", "neutral"}
    /\ Len(learner.sessions) <= 30

\* Every updateFromSession counts the session and appends it to the history,
\* dropping the oldest entry when the history already held 30.
SessionRecorded ==
    learner' # learner =>
        LET kept == IF Len(learner.sessions) = 30
                    THEN Tail(learner.sessions) ELSE learner.sessions
        IN  /\ learner'.totalSessions = learner.totalSessions + 1
            /\ Len(learner'.sessions) = Len(kept) + 1
            /\ SubSeq(learner'.sessions, 1, Len(kept)) = kept

\* C22: with the default baseline, after any sequence of updateFromSession
\* calls currentDifficulty is in [1,10], hintFrequency in [0,1], taskPacing in
\* [0.5,2.0], feedbackTone is one of encouraging/directive/neutral, and the
\* history holds at most 30 sessions, the oldest being evicted first while
\* totalSessions counts every session.
C22_LearnerBounds == []ParametersInBounds /\ [][SessionRecorded]_vars

\* C22 witness: after more than 30 sessions the history is full, its oldest
\* entries are gone, and three parameters sit on a bound.
C22_Witness ==
    /\ learner.totalSessions > 30
    /\ Len(learner.sessions) = 30
    /\ learner.currentDifficulty = R(10)
    /\ learner.hintFrequency = R(0)
    /\ learner.taskPacing = R(2)

(***************************************************************************)
(* Properties of mouse tracking (checked under Spec)                       *)
(***************************************************************************)
\* C23: trackMouse(x, y) adds the Euclidean distance from the last recorded
\* point to the cumulative distance and moves the last recorded point to
\* (x, y) only when that distance exceeds 5; a call at distance 5 or less
\* leaves both unchanged, and the cumulative distance never decreases between
\* resets.
C23_MouseDistance ==
    [][/\ \A p \in MousePoints :
            TrackMouse(p) =>
                LET dx == p.x - lastMousePos.x
                    dy == p.y - lastMousePos.y
                    distance == Sqrt(dx * dx + dy * dy)
                IN  IF distance > 5
                    THEN /\ totalMouseDistance' = totalMouseDistance + distance
                         /\ lastMousePos' = p
                    ELSE /\ totalMouseDistance' = totalMouseDistance
                         /\ lastMousePos' = lastMousePos
       /\ totalMouseDistance' < totalMouseDistance =>
              /\ totalMouseDistance' = 0
              /\ startTime' = now
              /\ snapshots' = <<>>]_vars

\* C23 witness: the pointer has travelled to (6, 8), and a later call at
\* (3, 4), exactly 5 away, has been recorded in a snapshot without moving the
\* last recorded point or adding to the distance.
C23_Witness ==
    /\ totalMouseDistance = 10
    /\ lastMousePos = [x |-> 6, y |-> 8]
    /\ Len(snapshots) > 0
    /\ snapshots[Len(snapshots)].mouseX = 3
    /\ snapshots[Len(snapshots)].mouseY = 4

(***************************************************************************)
(* Properties of the question loop (checked under SpecGame)                *)
(***************************************************************************)
\* C24: the question presented after an answer is generated by
\* generateQuestionParameters from the skill estimate and the window of
\* recent performance (at most 5 entries) that already include the question
\* just answered.
C24_QuestionFollowsAnswer ==
    [][(timer # NoResult /\ timer' = NoResult /\ questionsAnswered > 0) =>
          /\ Len(recentPerformance) <= 5
          /\ recentPerformance[Len(recentPerformance)].timeSpent
                 = lastMetrics.averageResponseTime
          /\ question' = GenerateQuestionParameters(skillEstimate,
                                                    recentPerformance)]_vars

(***************************************************************************)
(* Properties of BreakTimer (checked under SpecBreakTimer)                 *)
(***************************************************************************)
\* The timer has been started once and not stopped since.
StartedOnce == Len(breakCallbacks) = 1 /\ timerInterval # NoResult

\* C25: for a BreakTimer started once with structuredBreaks enabled the
\* notifications strictly alternate: after a 'break' no further 'break' is
\* delivered before a 'work', and each break is followed by exactly one
\* 'work', breakDuration minutes later, for every breakFrequency and
\* breakDuration.
C25_BreaksAlternate ==
    StartedOnce =>
        \A i \in 1..Len(notifications) :
            LET resume == notifications[i].at
                              + breakConfig.breakDuration * MsPerMinute
            IN  IF notifications[i].breakType = "break"
                THEN IF i < Len(notifications)
                     THEN /\ notifications[i + 1].breakType = "work"
                          /\ notifications[i + 1].at = resume
                     ELSE now <= resume
                ELSE i > 1 /\ notifications[i - 1].breakType = "break"

\* Every callback has been called once per notification.
DeliveredOnce ==
    \A i, j \in 1..Len(notifications) :
        (/\ notifications[i].callback = notifications[j].callback
         /\ notifications[i].breakType = notifications[j].breakType
         /\ notifications[i].at = notifications[j].at) => i = j

\* C26: after stop() has returned no further 'break' or 'work' notification
\* is delivered to any callback, whatever the timer was doing when it was
\* stopped, and a later start() delivers each notification to each callback
\* once.
C26_SilentAfterStop ==
    /\ [][(timerInterval = NoResult /\ timerInterval' = NoResult)
              => notifications' = notifications]_vars
    /\ [](timeouts = {} => DeliveredOnce)

(***************************************************************************)
(* Properties of AudioAnalyzer (checked under SpecAudio)                   *)
(***************************************************************************)
\* C27: getSpeechMetrics() terminates for every recorded feature history, the
\* empty one included, and returns confidenceScore and engagementScore in
\* [0,100]; the chain getSpeechMetrics -> calculateEngagementScore does not
\* re-enter getSpeechMetrics without bound.
C27_SpeechMetricsReturn ==
    speechMetrics # NoResult =>
        /\ "error" \notin DOMAIN speechMetrics
        /\ speechMetrics.confidenceScore \in 0..100
        /\ speechMetrics.engagementScore \in 0..100

(***************************************************************************)
(* Properties of EmotionGestureDetector (checked under SpecDetector)       *)
(***************************************************************************)
\* C28: after any sequence of hand-landmark results the gesture history
\* never holds more than MAX_HISTORY entries, and the emotion history never
\* more than MAX_HISTORY, whichever mix of recognised gestures, unrecognised
\* poses and fidgeting detections occurs.
C28_HistoriesCapped ==
    /\ Len(detector.gestureHistory) <= MAX_HISTORY
    /\ Len(detector.emotionHistory) <= MAX_HISTORY

(***************************************************************************)
(* Validity of a session (checked under SpecAttention)                     *)
(***************************************************************************)
\* C29: evaluateSessionQuality() returns isValidSession = true only if at
\* least 2 attention checks passed; a session with no recorded attention
\* check, or with a single check that passed, is never valid, whatever
\* response times and interactions were recorded.
ValidNeedsTwoPasses ==
    (quality # NoResult /\ quality.isValidSession) =>
        quality.attentionChecksPassed >= MIN_ATTENTION_CHECKS_PASSED
FewChecksInvalid ==
    (EvaluateQuality /\ PassedCount < MIN_ATTENTION_CHECKS_PASSED) =>
        ~quality'.isValidSession
C29_ValidNeedsTwoPasses == []ValidNeedsTwoPasses /\ [][FewChecksInvalid]_vars
C29_Witness ==
    /\ quality # NoResult
    /\ quality.isValidSession
    /\ quality.attentionChecksPassed = MIN_ATTENTION_CHECKS_PASSED
    /\ quality.attentionChecksFailed = 1

(***************************************************************************)
(* Question type and returned difficulty (checked under SpecQuestions)     *)
(***************************************************************************)
\* C30: the questionType and numOptions returned by
\* generateQuestionParameters agree with the returned (clamped) difficulty:
\* the breakpoints <30 / <50 / <70 and the numOptions rule (4 below 50,
\* otherwise 6) applied to the returned difficulty give the returned
\* questionType and numOptions, for every skill estimate and window.
C30_TypeAgreesWithDifficulty ==
    question # NoResult =>
        /\ question.questionType =
               IF RLt(question.difficulty, R(30)) THEN "number-recognition"
               ELSE IF RLt(question.difficulty, R(50)) THEN "addition"
               ELSE IF RLt(question.difficulty, R(70)) THEN "subtraction"
               ELSE "sequencing"
        /\ question.numOptions = IF RLt(question.difficulty, R(50)) THEN 4
                                 ELSE 6
\* C30 witness: a question whose nudged difficulty, 95 + 5, was clamped back
\* to 95
C30_Witness ==
    /\ question # NoResult
    /\ CalculateOptimalDifficulty(skillEstimate) = R(95)
    /\ Len(recentPerformance) > 0
    /\ 10 * CorrectCount(recentPerformance) > 8 * Len(recentPerformance)
    /\ question.difficulty = R(95)
    /\ question.questionType = "sequencing"
    /\ question.numOptions = 6

====
